---- MODULE Spec2Model ----
(***************************************************************************)
(* Gesture pipeline of the globe viewer: the HandController component      *)
(* (detector and camera set-up, the frame loop, classification and the     *)
(* change-detection throttle) and AppContent's gesture effect that binds   *)
(* emitted gesture states to the Leva controls autoRotate and pvScale;     *)
(* and the part of the Earth scene the controls reach: the projection of   *)
(* the overlay and of the stations onto the globe, the station instances   *)
(* and their batch scale.                                                  *)
(*                                                                         *)
(* Numbers.  Every real quantity of the program (normalized landmark       *)
(* coordinates, distances, pvScale) is held as an integer number of        *)
(* thousandths: 0.08 is 80, 1.0 is 1000.  Math.hypot carries a length as   *)
(* its square; a gesture state holds the thousandths of pinchDistance,     *)
(* rounded down.  Where the thousandths do not decide a comparison of the  *)
(* program's doubles (a distance exactly on a threshold of the             *)
(* classifier, two pinch distances exactly 0.05 apart, a rise of pvScale   *)
(* of exactly 0.01) both outcomes are taken.                               *)
(***************************************************************************)
EXTENDS Integers, Sequences, FiniteSets, TLC

VARIABLES
    \* ---- HandController: life cycle -----------------------------------
    mounted,          \* isMounted of the set-up effect; the component is alive
    initPc,           \* where initLandmarker is: "wasm", "create", "done"
    landmarkerRef,    \* landmarkerRef.current: "null", "open", "closed"
    openLandmarkers,  \* detector handles created and not yet closed
    camPc,            \* where startCamera is: "idle", "getUserMedia",
                      \* "loadeddata", "play", "done", "failed"
    streamRef,        \* streamRef.current: "null" or "live"
    liveStreams,      \* camera streams acquired whose tracks are not stopped
    isError,          \* React state isError
    cameraReady,      \* React state cameraReady
    readyUpdate,      \* how far setCameraReady(true) has got: "none", "queued"
                      \* (called, not yet rendered), "effect" (rendered, the
                      \* loop effect of that render not yet run)
    status,           \* React state status (the text shown in the panel)
    \* ---- HandController: frame loop ------------------------------------
    requestRef,       \* requestRef.current: handle of the last request, 0 = none
    pendingFrames,    \* animation-frame callbacks requested and not yet run
    videoTime,        \* video.currentTime, counted in frames
    lastVideoTime,    \* lastVideoTimeRef.current
    previousState,    \* previousStateRef.current: the last emitted state
    \* ---- what the most recent step did (locals of predictWebcam) -------
    passResult,       \* "none" when the last step was no frame-loop pass, else
                      \* "idle", "gate", "throw", "quiet", "emit"
                      \* ("classified" when the classifier is run on its own)
    result,           \* what detectForVideo returned in that pass
    newState,         \* the candidate state of that pass
    \* ---- history of the frame loop -------------------------------------
    lastCandidate,    \* kind and candidate of the latest frame a pass got
                      \* through detection ("none": no frame yet)
    owed,             \* emissions less the writes of pvScale by the gesture
                      \* effect, the emissions counted up to MaxOwed
    \* ---- Earth: the scene -----------------------------------------------
    stations,         \* MOCK_PV_STATIONS, drawn when the module is loaded
    scaleMultiplier,  \* the scaleMultiplier prop of SolarPanels: the pvScale
                      \* of the last render, in thousandths
    currentScale,     \* meshRef.current.scale of SolarPanels (x = y = z), in
                      \* thousandths
    placement,        \* the projection on its own: the coordinate it is given
                      \* ("input") and then the position and quaternion
                      \* computed for it ("none": not in use)
    \* ---- AppContent ----------------------------------------------------
    gestureState,     \* React state gestureState (latest value set)
    pendingSets,      \* setGestureState calls not yet rendered and committed
    controlsValues,   \* controlsValuesRef.current: the controls as AppContent
                      \* rendered them last
    effectDue,        \* the gesture effect of a render that has not run yet,
                      \* with the gestureState of that render
    autoRotate,       \* Leva control autoRotate
    pvScale,          \* Leva control pvScale, in thousandths
    effectRun,        \* what the gesture effect did if it was the last step
    frameRun,         \* the last step was a render frame of SolarPanels
    \* ---- Earth: the station instances ----------------------------------
    instanceMatrix,   \* meshRef.current.instanceMatrix of SolarPanels: the
                      \* transform of each station instance
    layoutRan         \* the layout effect of SolarPanels has run

vars == << mounted, initPc, landmarkerRef, openLandmarkers, camPc, streamRef,
           liveStreams, isError, cameraReady, readyUpdate, status, requestRef,
           pendingFrames,
           videoTime, lastVideoTime, previousState, passResult, result, newState,
           gestureState, pendingSets, controlsValues, effectDue, autoRotate,
           pvScale, effectRun, frameRun, lastCandidate, owed, stations,
           scaleMultiplier, currentScale, placement, instanceMatrix,
           layoutRan >>

sceneVars == << stations, scaleMultiplier, currentScale, placement,
               instanceMatrix, layoutRan >>

lifeVars == << mounted, initPc, landmarkerRef, openLandmarkers, camPc, streamRef,
               liveStreams, isError, cameraReady, readyUpdate, status >>

loopVars == << requestRef, pendingFrames, videoTime, lastVideoTime, previousState,
               passResult, result, newState >>

appVars == << gestureState, pendingSets, controlsValues, effectDue, autoRotate,
             pvScale, effectRun >>

-----------------------------------------------------------------------------
(* Bounds of the model. *)

\* Video frames the camera delivers in one run (video.currentTime advances
\* this many times).
MaxFrames == 3

\* The count of emissions not yet answered by a write of pvScale stops at
\* this value.
MaxOwed == 2

\* onGestureUpdate is called at most this many times between two renders of
\* AppContent when the calls are drawn as inputs.
MaxSets == 1

-----------------------------------------------------------------------------
(* Program constants, in thousandths. *)

PinchThreshold == 80
FistThreshold == 150
PalmThreshold == 200
PinchDelta == 50
ScaleStep == 20
ScaleGuard == 10
ScaleMin == 0
ScaleMax == 1000
CoordMax == 1000

-----------------------------------------------------------------------------
(* Arithmetic helpers. *)

Abs(x) == IF x < 0 THEN -x ELSE x

Min(a, b) == IF a < b THEN a ELSE b

Max(a, b) == IF a > b THEN a ELSE b

RECURSIVE SqrtSearch(_, _, _)
SqrtSearch(n, lo, hi) ==
    IF lo >= hi THEN lo
    ELSE LET mid == (lo + hi + 1) \div 2
         IN  IF mid * mid <= n THEN SqrtSearch(n, mid, hi)
                               ELSE SqrtSearch(n, lo, mid - 1)

\* Math.hypot(dx, dy) for dx and dy in thousandths.  The length is carried
\* as its square, in millionths, which is exact: a comparison of a length
\* with a threshold is then the comparison the program makes, also for a
\* length between two thousandths.
Hypot(dx, dy) == dx * dx + dy * dy

\* A length in thousandths, as Hypot carries it.
Length(thousandths) == thousandths * thousandths

\* The thousandths of a length, rounded down: the form in which a gesture
\* state holds pinchDistance.
Thousandths(length) == SqrtSearch(length, 0, 2 * CoordMax)

-----------------------------------------------------------------------------
(* Gesture states and landmark sets. *)

Point(px, py) == [x |-> px, y |-> py]

\* The neutral state: the initial previousStateRef and gestureState, and the
\* candidate of a frame without a hand.
Neutral ==
    [ isPalmOpen    |-> FALSE,
      isFist        |-> FALSE,
      isPinching    |-> FALSE,
      pinchDistance |-> 0,
      handPosition  |-> Point(500, 500) ]

\* The four landmarks predictWebcam reads: landmarks[0], [4], [8], [20].
\* A hand whose index tip is dIndex from the wrist, whose pinky tip is dPinky
\* from the wrist and whose thumb tip is dThumb from the index tip.
Hand(dIndex, dPinky, dThumb) ==
    [ wrist    |-> Point(dPinky, dIndex),
      thumbTip |-> Point(dPinky, dThumb),
      indexTip |-> Point(dPinky, 0),
      pinkyTip |-> Point(0, dIndex) ]

\* A hand that fills the frame: the thumb tip in one corner of the
\* normalized image and the index tip in the opposite corner.
SpreadHand ==
    [ wrist    |-> Point(CoordMax, 300),
      thumbTip |-> Point(0, CoordMax),
      indexTip |-> Point(CoordMax, 0),
      pinkyTip |-> Point(700, 300) ]

\* Hands the detector reports in the frame loop: three pinches 0.03 apart,
\* an open palm at two cursor positions and with the thumb 0.05 further
\* out, a fist, a fist with the thumb on the index tip, a half-curled hand,
\* and a hand that fills the frame.
Hands ==
    { Hand(250, 250, d) : d \in {10, 40, 70, 300, 350} }
        \cup { Hand(250, 300, 300) }
        \cup { Hand(100, 100, d) : d \in {50, 300} }
        \cup { Hand(180, 250, 300) }
        \cup { SpreadHand }

\* Hands for checking the classifier alone: every combination of distances
\* below, at and above each threshold.
ThumbDistances == {0, 50, 79, 80, 81, 300}
IndexDistances == {0, 100, 149, 150, 151, 199, 200, 201, 250}
PinkyDistances == {0, 100, 149, 150, 151, 250}

\* A hand given by the offsets of its tips: the index and pinky tips from
\* the wrist at (500, 900), the thumb tip from the index tip.
SlantHand(index, pinky, thumb) ==
    [ wrist    |-> Point(500, 900),
      thumbTip |-> Point(500 + index[1] + thumb[1], 900 + index[2] + thumb[2]),
      indexTip |-> Point(500 + index[1], 900 + index[2]),
      pinkyTip |-> Point(500 + pinky[1], 900 + pinky[2]) ]

\* Offsets whose length is a whole number of thousandths (3-4-5 triangles)
\* away from every threshold: 50, 75 and 100 for the thumb, 100, 140, 160,
\* 210 and 250 for the fingers; and offsets whose length lies between a
\* threshold and the thousandth next to it: 0.0799 for the thumb, 0.1499
\* and 0.2001 for the fingers.
ThumbOffsets == { <<30, 40>>, <<45, 60>>, <<-60, 80>>, <<56, 57>> }
FingerOffsets ==
    { <<-60, -80>>, <<-84, -112>>, <<-96, -128>>, <<-126, -168>>, <<150, -200>>,
      <<-106, -106>>, <<-141, -142>> }

AllHands ==
    { Hand(di, dp, dt) :
        di \in IndexDistances, dp \in PinkyDistances, dt \in ThumbDistances }
    \cup { SlantHand(i, p, t) :
             i \in FingerOffsets, p \in FingerOffsets, t \in ThumbOffsets }

PinchDist(lm) ==
    Hypot(lm.thumbTip.x - lm.indexTip.x, lm.thumbTip.y - lm.indexTip.y)

DIndex(lm) == Hypot(lm.indexTip.x - lm.wrist.x, lm.indexTip.y - lm.wrist.y)

DPinky(lm) == Hypot(lm.pinkyTip.x - lm.wrist.x, lm.pinkyTip.y - lm.wrist.y)

\* The sides the program's doubles can take where the thousandths put a
\* distance exactly on a threshold it is compared with: the subtraction of
\* two coordinates and Math.hypot round, so 0.58 - 0.5 is below 0.08 and
\* 0.9 - 0.7 is above 0.2.  A field is TRUE when the strict comparison
\* comes out true: pinchDist < 0.08, dIndex < 0.15 or dIndex > 0.2,
\* dPinky < 0.15.  Away from the thresholds the thousandths decide.
NoRounding == [ pinch |-> FALSE, index |-> FALSE, pinky |-> FALSE ]

Sides(length, thresholds) ==
    IF \E t \in thresholds : length = Length(t) THEN BOOLEAN ELSE {FALSE}

Roundings(lm) ==
    { [ pinch |-> p, index |-> i, pinky |-> k ] :
        p \in Sides(PinchDist(lm), {PinchThreshold}),
        i \in Sides(DIndex(lm), {FistThreshold, PalmThreshold}),
        k \in Sides(DPinky(lm), {FistThreshold}) }

\* length < threshold and length > threshold on doubles.
Below(length, threshold, tie) ==
    \/ length < Length(threshold)
    \/ length = Length(threshold) /\ tie

Above(length, threshold, tie) ==
    \/ length > Length(threshold)
    \/ length = Length(threshold) /\ tie

IsPinching(pinchDist, tie) == Below(pinchDist, PinchThreshold, tie)

\* A fist test satisfied by either finger.
IsFistEither(dIndex, dPinky, tieIndex, tiePinky) ==
    Below(dIndex, FistThreshold, tieIndex)
        \/ Below(dPinky, FistThreshold, tiePinky)

IsFist(dIndex, dPinky, tieIndex, tiePinky) ==
    Below(dIndex, FistThreshold, tieIndex)
        /\ Below(dPinky, FistThreshold, tiePinky)

\* A palm test that takes every hand that does not pinch for an open palm.
IsPalmOpenUnlessPinching(isFist, isPinching, dIndex, tie) ==
    ~isPinching

IsPalmOpen(isFist, isPinching, dIndex, tie) ==
    ~isFist /\ ~isPinching /\ Above(dIndex, PalmThreshold, tie)

\* A cursor that takes the index tip as the camera sees it.
CursorUnmirrored(indexTip) ==
    Point(indexTip.x, indexTip.y)

\* cursorX = 1 - indexTip.x, cursorY = indexTip.y.
Cursor(indexTip) ==
    Point(CoordMax - indexTip.x, indexTip.y)

\* The candidate state of a frame in which a hand was detected, `round`
\* being the sides the doubles take at a threshold.
Classify(lm, round) ==
    LET pinchDist  == PinchDist(lm)
        isPinching == IsPinching(pinchDist, round.pinch)
        dIndex     == DIndex(lm)
        dPinky     == DPinky(lm)
        isFist     == IsFist(dIndex, dPinky, round.index, round.pinky)
        isPalmOpen == IsPalmOpen(isFist, isPinching, dIndex, round.index)
    IN  [ isPalmOpen    |-> isPalmOpen,
          isFist        |-> isFist,
          isPinching    |-> isPinching,
          pinchDistance |-> Thousandths(pinchDist),
          handPosition  |-> Cursor(lm.indexTip) ]

\* The outcome of Math.abs(prev.pinchDistance - newState.pinchDistance) >
\* 0.05 on two distances held in thousandths.  When the thousandths are
\* exactly 0.05 apart the program's doubles decide (0.2 and 0.15 compare as
\* moved, 0.07 and 0.02 do not), and so do the parts of the distances below
\* a thousandth: the answer is then the parameter tie.
PinchMoved(a, b, tie) ==
    \/ Abs(a - b) > PinchDelta
    \/ Abs(a - b) = PinchDelta /\ tie

\* A change test that takes every frame for a change.
HasChangedEveryFrame(prev, new, tie) == TRUE

\* A change test that does not look at the fist flag.
HasChangedIgnoringFist(prev, new, tie) ==
    \/ prev.isPalmOpen # new.isPalmOpen
    \/ prev.isPinching # new.isPinching
    \/ PinchMoved(prev.pinchDistance, new.pinchDistance, tie)

\* A change test whose distance threshold is 0.1.
HasChangedByTenth(prev, new, tie) ==
    \/ prev.isPalmOpen # new.isPalmOpen
    \/ prev.isFist # new.isFist
    \/ prev.isPinching # new.isPinching
    \/ Abs(prev.pinchDistance - new.pinchDistance) > 2 * PinchDelta

\* A change test that also looks at the cursor position.
HasChangedAnyField(prev, new, tie) == prev # new

\* The throttle's change test.
HasChanged(prev, new, tie) ==
    \/ prev.isPalmOpen # new.isPalmOpen
    \/ prev.isFist # new.isFist
    \/ prev.isPinching # new.isPinching
    \/ PinchMoved(prev.pinchDistance, new.pinchDistance, tie)

\* What detectForVideo does in one pass: it throws, finds no hand, or
\* returns the landmarks of one hand (numHands: 1).  The landmarks are
\* doubles: a detection holds their thousandths and, in `round`, the sides
\* they take at a threshold of the classifier.
NoLandmarks == Hand(0, 0, 0)

Detections(hands) ==
    { [kind |-> "throw", landmarks |-> NoLandmarks, round |-> NoRounding],
      [kind |-> "empty", landmarks |-> NoLandmarks, round |-> NoRounding] }
        \cup UNION { { [kind |-> "hand", landmarks |-> h, round |-> rd] :
                         rd \in Roundings(h) } : h \in hands }

NoDetection == [kind |-> "none", landmarks |-> NoLandmarks, round |-> NoRounding]

\* The detections of the frame loop, and the classification of each hand.
FrameDetections == Detections(Hands)

HandState == [h \in Hands |-> [rd \in Roundings(h) |-> Classify(h, rd)]]

\* The candidate of a pass whose detection returned r.
Candidate(r) ==
    IF r.kind = "hand" THEN HandState[r.landmarks][r.round] ELSE Neutral

-----------------------------------------------------------------------------
(* ControlStateBinding: AppContent's gesture effect. *)

\* Clamp with the upper bound forgotten.
ClampFromBelow(v) == Max(ScaleMin, v)

Clamp(v) == Min(ScaleMax, Max(ScaleMin, v))

NewScale(scale) == Clamp(scale + ScaleStep)

\* A write guard that lets every write through.
ScaleWritesAlways(newScale, scale) == {TRUE}

\* The outcomes of Math.abs(newScale - pvScale) > 0.01.  The program computes
\* in IEEE doubles: a difference whose decimal value is exactly 0.01 compares
\* either way (1 - 0.99 is 0.010000000000000009 and passes, while
\* 1 - 0.9900000000000005, reached from 0.01 by 49 increments, does not).
ScaleWrites(newScale, scale) ==
    IF Abs(newScale - scale) > ScaleGuard THEN {TRUE}
    ELSE IF Abs(newScale - scale) = ScaleGuard THEN {TRUE, FALSE}
    ELSE {FALSE}

\* Rule 1, rotation control: the value the control autoRotate has after the
\* effect.  `seen` is currentControls.autoRotate, the value the effect reads
\* from controlsValuesRef; `rotate` is the value of the control itself.
RotateAfter(g, seen, rotate) ==
    IF g.isPalmOpen THEN (IF ~seen THEN TRUE ELSE rotate)
    ELSE IF g.isFist THEN (IF seen THEN FALSE ELSE rotate)
    ELSE rotate

\* Rule 2, pinch to scale: the value the control pvScale has after the
\* effect, given the outcome of the write guard.  `seen` is
\* currentControls.pvScale, `scale` the value of the control itself.
ScaleAfter(g, seen, scale, writes) ==
    IF g.isPinching /\ writes THEN NewScale(seen) ELSE scale

\* The controls AppContent reads from useControls.
Controls(rotate, scale) == [ autoRotate |-> rotate, pvScale |-> scale ]
-----------------------------------------------------------------------------
(* Initial state: both components mounted, their first effects run.  The   *)
(* gesture effect has run once on the neutral initial gestureState (no     *)
(* rule matches it), and initLandmarker is awaiting the WASM fileset.      *)

\* Values the user sets pvScale to in the Leva panel (min 0, max 1).
UserScales == {0, 970, 985, 995, 1000}

InitialScale == 100

\* The scale of a new mesh: three.js creates an Object3D with scale (1, 1, 1).
MeshScale == 1000

\* MOCK_PV_STATIONS has 50 stations.
StationCount == 50

\* What Math.random leaves in a station: lat = 40.0 + (random - 0.5) * 0.8
\* is in [39.6, 40.4), lon = 107.5 + (random - 0.5) * 2.5 is in
\* [106.25, 108.75), and type is one of three.  Angles are in tenths of a
\* degree; a low, a middle and a high value of each range are drawn.
StationLatitudes == << 396, 400, 403 >>

StationLongitudes == << 1063, 1075, 1087 >>

StationTypes == << "Large", "Medium", "Small" >>

\* The n-th of the 27 combinations of latitude, longitude and type.
StationOf(n) ==
    [ lat  |-> StationLatitudes[(n % 3) + 1],
      lon  |-> StationLongitudes[((n \div 3) % 3) + 1],
      type |-> StationTypes[((n \div 9) % 3) + 1] ]

\* Outcomes of the 50 draws: every list holds each combination, at
\* different places.
StationDraws ==
    { [ i \in 1..StationCount |-> StationOf(i + first) ] : first \in {0, 13} }

\* An instance matrix nothing has been written to.
NoTransform == [ written |-> FALSE ]

\* The projection on its own is not in use.
NoPlacement == [ site |-> "none" ]

\* No frame has been classified yet.
NoCandidate == [ kind |-> "none", state |-> Neutral ]

NoEffect ==
    [ ran          |-> FALSE,
      gesture      |-> Neutral,
      rotateSeen   |-> FALSE,
      scaleSeen    |-> 0,
      rotateBefore |-> FALSE,
      scaleBefore  |-> 0,
      sets         |-> 0 ]

\* No gesture effect is due.
NoDue == [ due |-> FALSE, gesture |-> Neutral, sets |-> 0 ]

\* HandController and AppContent after their mount.
Mounted ==
    /\ mounted = TRUE
    /\ initPc = "wasm"
    /\ landmarkerRef = "null"
    /\ openLandmarkers = 0
    /\ camPc = "idle"
    /\ streamRef = "null"
    /\ liveStreams = 0
    /\ isError = FALSE
    /\ cameraReady = FALSE
    /\ readyUpdate = "none"
    /\ status = "Initializing System..."
    /\ requestRef = 0
    /\ pendingFrames = {}
    /\ videoTime = 0
    /\ lastVideoTime = -1
    /\ previousState = Neutral
    /\ passResult = "none"
    /\ result = NoDetection
    /\ newState = Neutral
    /\ gestureState = Neutral
    /\ pendingSets = 0
    /\ controlsValues = Controls(TRUE, InitialScale)
    /\ effectDue = NoDue
    /\ autoRotate = TRUE
    /\ pvScale = InitialScale
    /\ effectRun = NoEffect
    /\ lastCandidate = NoCandidate
    /\ owed = 0
    /\ scaleMultiplier = InitialScale
    /\ frameRun = FALSE
    /\ currentScale = MeshScale
    /\ instanceMatrix = [ i \in 1..StationCount |-> NoTransform ]
    /\ layoutRan = FALSE

\* The draw of the stations matters to SolarPanels alone: where the
\* stations are not read, the state after construction is taken with one
\* of the draws.
Init ==
    /\ Mounted
    /\ stations = [ i \in 1..StationCount |-> StationOf(i) ]
    /\ placement = NoPlacement

\* The step was no frame-loop pass.
NoPass ==
    /\ passResult' = "none"
    /\ result' = NoDetection
    /\ newState' = Neutral

\* A step of HandController's set-up: the loop and AppContent are untouched.
SetupStep ==
    /\ NoPass
    /\ effectRun' = NoEffect
    /\ frameRun' = FALSE
    /\ UNCHANGED << videoTime, lastVideoTime, previousState, gestureState,
                    pendingSets, controlsValues, effectDue, autoRotate, pvScale, lastCandidate,
                    owed >>
    /\ UNCHANGED sceneVars

-----------------------------------------------------------------------------
(* HandController: camera. *)

\* stopCamera: stop the tracks of the stream streamRef holds and drop it.
StopCamera ==
    /\ liveStreams' = IF streamRef = "live" THEN liveStreams - 1 ELSE liveStreams
    /\ streamRef' = "null"

\* A startCamera that acquires a stream without stopping the one it has.
StartCameraKeepsStream(supported, err) ==
    IF supported
    THEN /\ camPc' = "getUserMedia"
         /\ status' = "Requesting Camera Access..."
         /\ isError' = err
         /\ UNCHANGED << streamRef, liveStreams >>
    ELSE /\ camPc' = "failed"
         /\ status' = "Camera Error"
         /\ isError' = TRUE
         /\ UNCHANGED << streamRef, liveStreams >>

\* A startCamera whose missing-API branch reports no error.
StartCameraSilent(supported, err) ==
    IF supported
    THEN /\ StopCamera
         /\ camPc' = "getUserMedia"
         /\ status' = "Requesting Camera Access..."
         /\ isError' = err
    ELSE /\ camPc' = "failed"
         /\ status' = "Camera Error"
         /\ isError' = err
         /\ UNCHANGED << streamRef, liveStreams >>

\* startCamera up to its await of getUserMedia.  `supported` is whether the
\* browser has navigator.mediaDevices.getUserMedia; `err` is isError as the
\* caller left it.
StartCamera(supported, err) ==
    IF supported
    THEN /\ StopCamera
         /\ camPc' = "getUserMedia"
         /\ status' = "Requesting Camera Access..."
         /\ isError' = err
    ELSE /\ camPc' = "failed"
         /\ status' = "Camera Error"
         /\ isError' = TRUE
         /\ UNCHANGED << streamRef, liveStreams >>

\* getUserMedia resolves: the stream is stored and, when the video element
\* is still there, attached to it.
GetUserMediaResolved ==
    /\ camPc = "getUserMedia"
    /\ streamRef' = "live"
    /\ liveStreams' = liveStreams + 1
    /\ camPc' = IF mounted THEN "loadeddata" ELSE "done"
    /\ status' = IF mounted THEN "Waiting for video data..." ELSE status
    /\ SetupStep
    /\ UNCHANGED << mounted, initPc, landmarkerRef, openLandmarkers, isError,
                    cameraReady, readyUpdate, requestRef, pendingFrames >>

\* getUserMedia rejects: startCamera's catch.
GetUserMediaRejected ==
    /\ camPc = "getUserMedia"
    /\ camPc' = "failed"
    /\ isError' = (mounted \/ isError)
    /\ status' = IF mounted THEN "Camera Error" ELSE status
    /\ SetupStep
    /\ UNCHANGED << mounted, initPc, landmarkerRef, openLandmarkers, streamRef,
                    liveStreams, cameraReady, readyUpdate,
                    requestRef, pendingFrames >>

\* onloadeddata: play() is called on the video element.
LoadedData ==
    /\ camPc = "loadeddata"
    /\ camPc' = IF mounted THEN "play" ELSE "done"
    /\ status' = IF mounted THEN "Playing video..." ELSE status
    /\ SetupStep
    /\ UNCHANGED << mounted, initPc, landmarkerRef, openLandmarkers, streamRef,
                    liveStreams, isError, cameraReady, readyUpdate,
                    requestRef, pendingFrames >>

\* The handle requestAnimationFrame returns: one that names no pending
\* callback.  (The browser never reuses a handle; the program keeps a handle
\* only in requestRef, which every request overwrites, so the least free
\* number stands for the fresh one.)
NextHandle(pending) ==
    CHOOSE h \in 1..(Cardinality(pending) + 1) :
        h \notin pending /\ \A k \in 1..(h - 1) : k \in pending

\* play() resolves: the then-callback calls setCameraReady(true) and
\* setStatus('Active: Tracking Hands').  React applies the two updates in a
\* later render.
PlayResolved ==
    /\ camPc = "play"
    /\ camPc' = "done"
    /\ readyUpdate' = IF mounted THEN "queued" ELSE readyUpdate
    /\ SetupStep
    /\ UNCHANGED << mounted, initPc, landmarkerRef, openLandmarkers, streamRef,
                    liveStreams, isError, cameraReady, status, requestRef,
                    pendingFrames >>

\* play() rejects.
PlayRejected ==
    /\ camPc = "play"
    /\ camPc' = "failed"
    /\ isError' = (mounted \/ isError)
    /\ status' = IF mounted THEN "Autoplay prevented" ELSE status
    /\ SetupStep
    /\ UNCHANGED << mounted, initPc, landmarkerRef, openLandmarkers, streamRef,
                    liveStreams, cameraReady, readyUpdate,
                    requestRef, pendingFrames >>

\* The Retry Camera button, shown while isError.
RetryCamera ==
    /\ mounted
    /\ isError
    /\ \E supported \in BOOLEAN : StartCamera(supported, FALSE)
    /\ SetupStep
    /\ UNCHANGED << mounted, initPc, landmarkerRef, openLandmarkers,
                    cameraReady, readyUpdate, requestRef, pendingFrames >>

-----------------------------------------------------------------------------
(* HandController: the set-up effect. *)

\* FilesetResolver.forVisionTasks resolves.
WasmLoaded ==
    /\ initPc = "wasm"
    /\ initPc' = IF mounted THEN "create" ELSE "done"
    /\ SetupStep
    /\ UNCHANGED << mounted, landmarkerRef, openLandmarkers, camPc, streamRef,
                    liveStreams, isError, cameraReady, readyUpdate, status, requestRef,
                    pendingFrames >>

\* forVisionTasks or createFromOptions rejects: initLandmarker's catch.
InitFailed ==
    /\ initPc \in {"wasm", "create"}
    /\ initPc' = "done"
    /\ isError' = (mounted \/ isError)
    /\ status' = IF mounted THEN "AI Init Failed" ELSE status
    /\ SetupStep
    /\ UNCHANGED << mounted, landmarkerRef, openLandmarkers, camPc, streamRef,
                    liveStreams, cameraReady, readyUpdate,
                    requestRef, pendingFrames >>

\* HandLandmarker.createFromOptions resolves: after teardown the new handle
\* is closed at once, otherwise it is stored and startCamera is called.
LandmarkerCreated ==
    /\ initPc = "create"
    /\ initPc' = "done"
    /\ IF mounted
       THEN /\ landmarkerRef' = "open"
            /\ openLandmarkers' = openLandmarkers + 1
            /\ \E supported \in BOOLEAN : StartCamera(supported, isError)
       ELSE UNCHANGED << landmarkerRef, openLandmarkers, camPc, streamRef,
                         liveStreams, isError, status >>
    /\ SetupStep
    /\ UNCHANGED << mounted, cameraReady, readyUpdate, requestRef, pendingFrames >>

\* A teardown that leaves the scheduled callback in place.
CancelNothing(pending, handle) ==
    pending

\* `if (requestRef.current) cancelAnimationFrame(requestRef.current)`: the
\* callbacks still scheduled once the one named by the handle is cancelled.
CancelFrame(pending, handle) ==
    IF handle # 0 THEN pending \ {handle} ELSE pending

\* Teardown: the cleanups of the set-up effect and of the loop effect.
Unmount ==
    /\ mounted
    /\ mounted' = FALSE
    /\ StopCamera
    /\ pendingFrames' = CancelFrame(pendingFrames, requestRef)
    /\ landmarkerRef' = IF landmarkerRef = "null" THEN "null" ELSE "closed"
    /\ openLandmarkers' = IF landmarkerRef = "open" THEN openLandmarkers - 1
                                                    ELSE openLandmarkers
    /\ SetupStep
    /\ UNCHANGED << initPc, camPc, isError, cameraReady, readyUpdate, status,
                    requestRef >>

\* React renders HandController with the updates of the then-callback.  The
\* loop effect is due when the render changed cameraReady (its dependencies
\* are cameraReady and predictWebcam, which changes with cameraReady only).
RenderReady ==
    /\ mounted
    /\ readyUpdate = "queued"
    /\ cameraReady' = TRUE
    /\ status' = "Active: Tracking Hands"
    /\ readyUpdate' = IF cameraReady THEN "none" ELSE "effect"
    /\ SetupStep
    /\ UNCHANGED << mounted, initPc, landmarkerRef, openLandmarkers, camPc,
                    streamRef, liveStreams, isError,
                    requestRef, pendingFrames >>

\* The loop effect of the render that made cameraReady true: the cleanup of
\* its previous run cancels the callback requestRef names, then
\* `if (cameraReady) requestRef.current = requestAnimationFrame(predictWebcam)`.
LoopEffect ==
    /\ mounted
    /\ readyUpdate = "effect"
    /\ readyUpdate' = "none"
    /\ LET kept == CancelFrame(pendingFrames, requestRef)
       IN  IF cameraReady
           THEN /\ requestRef' = NextHandle(kept)
                /\ pendingFrames' = kept \cup {NextHandle(kept)}
           ELSE /\ requestRef' = requestRef
                /\ pendingFrames' = kept
    /\ SetupStep
    /\ UNCHANGED << mounted, initPc, landmarkerRef, openLandmarkers, camPc,
                    streamRef, liveStreams, isError, cameraReady, status >>

-----------------------------------------------------------------------------
(* HandController: the frame loop. *)

\* The camera delivers a new video frame: video.currentTime advances.
VideoFrame ==
    /\ cameraReady
    /\ streamRef = "live"
    /\ videoTime < MaxFrames
    /\ videoTime' = videoTime + 1
    /\ NoPass
    /\ effectRun' = NoEffect
    /\ frameRun' = FALSE
    /\ UNCHANGED lifeVars
    /\ UNCHANGED sceneVars
    /\ UNCHANGED << requestRef, pendingFrames, lastVideoTime, previousState,
                    gestureState, pendingSets, controlsValues, effectDue, autoRotate, pvScale,
                    lastCandidate, owed >>

\* The readiness test of predictWebcam.  `playing` is what the video element
\* answers: not paused, not ended, with valid dimensions.
LoopReady(playing) ==
    cameraReady /\ mounted /\ landmarkerRef # "null" /\ playing

\* A gate that lets every pass through.
FrameIsAlwaysNew(time, last) == TRUE

\* The timestamp gate: video.currentTime !== lastVideoTimeRef.current.
FrameIsNew(time, last) == time # last

\* A pass that emits the candidate of every frame without a hand.
PassOutcomeEmptyEmits(playing, r, tie) ==
    IF ~LoopReady(playing) THEN "idle"
    ELSE IF ~FrameIsNew(videoTime, lastVideoTime) THEN "gate"
    ELSE IF r.kind = "throw" THEN "throw"
    ELSE IF r.kind = "empty" THEN "emit"
    ELSE IF HasChanged(previousState, Candidate(r), tie) THEN "emit"
    ELSE "quiet"

\* The outcome of one pass.
PassOutcome(playing, r, tie) ==
    IF ~LoopReady(playing) THEN "idle"
    ELSE IF ~FrameIsNew(videoTime, lastVideoTime) THEN "gate"
    ELSE IF r.kind = "throw" THEN "throw"
    ELSE IF HasChanged(previousState, Candidate(r), tie) THEN "emit"
    ELSE "quiet"

\* The timestamp predictWebcam leaves in lastVideoTimeRef.
LastTimeAfter(outcome) ==
    IF outcome \in {"idle", "gate"} THEN lastVideoTime ELSE videoTime

\* The next frame requested inside the try block: a throwing frame skips it.
ReschedulesUnlessThrown(outcome) == outcome # "throw"

\* Whether predictWebcam requests the next animation frame.
Reschedules(outcome) == TRUE

\* predictWebcam: one animation-frame callback.
PredictWebcam(id, playing, r, tie) ==
    LET outcome == PassOutcome(playing, r, tie)
        ran     == outcome \in {"throw", "emit", "quiet"}
        cand    == Candidate(r)
        next    == NextHandle(pendingFrames \ {id})
    IN  /\ id \in pendingFrames
        /\ passResult' = outcome
        /\ result' = IF ran THEN r ELSE NoDetection
        /\ newState' = IF outcome \in {"emit", "quiet"} THEN cand ELSE Neutral
        /\ lastVideoTime' = LastTimeAfter(outcome)
        /\ previousState' = IF outcome = "emit" THEN cand ELSE previousState
        /\ gestureState' = IF outcome = "emit" THEN cand ELSE gestureState
        /\ pendingSets' = IF outcome = "emit" THEN pendingSets + 1 ELSE pendingSets
        /\ lastCandidate' = IF outcome \in {"emit", "quiet"}
                            THEN [ kind |-> r.kind, state |-> cand ]
                            ELSE lastCandidate
        /\ owed' = IF outcome = "emit" THEN Min(owed + 1, MaxOwed) ELSE owed
        /\ IF Reschedules(outcome)
           THEN /\ requestRef' = next
                /\ pendingFrames' = (pendingFrames \ {id}) \cup {next}
           ELSE /\ requestRef' = requestRef
                /\ pendingFrames' = pendingFrames \ {id}
        /\ effectRun' = NoEffect
        /\ frameRun' = FALSE
        /\ UNCHANGED lifeVars
        /\ UNCHANGED sceneVars
        /\ UNCHANGED << videoTime, autoRotate, pvScale, controlsValues,
                        effectDue >>

\* The outcomes `tie` has for a candidate: the comparison of doubles goes
\* either way only when the two distances are exactly 0.05 apart.
Ties(prev, new) ==
    IF Abs(prev.pinchDistance - new.pinchDistance) = PinchDelta
    THEN BOOLEAN ELSE {FALSE}

FramePass ==
    \E id \in pendingFrames, playing \in BOOLEAN, r \in FrameDetections :
        \E tie \in Ties(previousState, Candidate(r)) :
            PredictWebcam(id, playing, r, tie)

-----------------------------------------------------------------------------
(* AppContent. *)

\* React renders AppContent, with the pending gestureState updates or
\* because a control has changed: the render stores its controls in
\* controlsValuesRef, and when gestureState has changed it leaves the
\* gesture effect due.  React runs the effects a render left due before it
\* renders again.  The <Earth pvScale=...> of this render is an element
\* handed to the Canvas: SolarPanels is not rendered in this step.
RenderApp ==
    /\ mounted
    /\ ~effectDue.due
    /\ ~(pendingSets = 0 /\ controlsValues = Controls(autoRotate, pvScale))
    /\ controlsValues' = Controls(autoRotate, pvScale)
    /\ effectDue' = IF pendingSets > 0
                    THEN [ due     |-> TRUE,
                           gesture |-> gestureState,
                           sets    |-> pendingSets ]
                    ELSE NoDue
    /\ pendingSets' = 0
    /\ NoPass
    /\ effectRun' = NoEffect
    /\ frameRun' = FALSE
    /\ UNCHANGED lifeVars
    /\ UNCHANGED sceneVars
    /\ UNCHANGED << requestRef, pendingFrames, videoTime, lastVideoTime,
                    previousState, gestureState, autoRotate, pvScale,
                    lastCandidate, owed >>

\* The gesture effect of the last render, on the gestureState of that
\* render: it reads the controls from controlsValuesRef and writes with
\* setControls.
GestureEffect ==
    /\ mounted
    /\ effectDue.due
    /\ \E writes \in ScaleWrites(NewScale(controlsValues.pvScale),
                                 controlsValues.pvScale) :
          /\ pvScale' = ScaleAfter(effectDue.gesture, controlsValues.pvScale,
                                   pvScale, writes)
          /\ owed' = IF effectDue.gesture.isPinching /\ writes
                     THEN owed - 1 ELSE owed
    /\ autoRotate' = RotateAfter(effectDue.gesture, controlsValues.autoRotate,
                                 autoRotate)
    /\ effectDue' = NoDue
    /\ effectRun' = [ ran          |-> TRUE,
                      gesture      |-> effectDue.gesture,
                      rotateSeen   |-> controlsValues.autoRotate,
                      scaleSeen    |-> controlsValues.pvScale,
                      rotateBefore |-> autoRotate,
                      scaleBefore  |-> pvScale,
                      sets         |-> effectDue.sets ]
    /\ frameRun' = FALSE
    /\ NoPass
    /\ UNCHANGED lifeVars
    /\ UNCHANGED sceneVars
    /\ UNCHANGED << requestRef, pendingFrames, videoTime, lastVideoTime,
                    previousState, gestureState, pendingSets, controlsValues,
                    lastCandidate >>

\* The user moves the PV Height control to v: the Leva store takes the
\* value.
EditPvScaleTo(v) ==
    /\ mounted
    /\ pvScale' = v
    /\ NoPass
    /\ effectRun' = NoEffect
    /\ frameRun' = FALSE
    /\ UNCHANGED lifeVars
    /\ UNCHANGED sceneVars
    /\ UNCHANGED << requestRef, pendingFrames, videoTime, lastVideoTime,
                    previousState, gestureState, pendingSets, controlsValues,
                    effectDue, autoRotate, lastCandidate, owed >>

EditPvScale == \E v \in UserScales : EditPvScaleTo(v)

\* The user toggles the Auto Rotate control: the Leva store takes the value.
EditAutoRotate ==
    /\ mounted
    /\ autoRotate' = ~autoRotate
    /\ NoPass
    /\ effectRun' = NoEffect
    /\ frameRun' = FALSE
    /\ UNCHANGED lifeVars
    /\ UNCHANGED sceneVars
    /\ UNCHANGED << requestRef, pendingFrames, videoTime, lastVideoTime,
                    previousState, gestureState, pendingSets, controlsValues,
                    effectDue, pvScale, lastCandidate, owed >>

-----------------------------------------------------------------------------

Next ==
    \/ WasmLoaded
    \/ InitFailed
    \/ LandmarkerCreated
    \/ GetUserMediaResolved
    \/ GetUserMediaRejected
    \/ LoadedData
    \/ PlayResolved
    \/ RenderReady
    \/ LoopEffect
    \/ PlayRejected
    \/ RetryCamera
    \/ Unmount
    \/ VideoFrame
    \/ FramePass
    \/ RenderApp
    \/ GestureEffect

\* HandController and AppContent from their mount on, the controls left to
\* the gestures.
Spec == Init /\ [][Next]_vars
-----------------------------------------------------------------------------
(* AppContent on its own: the gesture states it is given are drawn as      *)
(* inputs, and the user edits the controls.                                *)

\* The gesture states AppContent is given: the neutral state, a pinch, an
\* open palm, a fist, and a fist with the thumb on the index tip.
GestureStates ==
    { Neutral } \cup
    { HandState[h][NoRounding] :
        h \in { Hand(250, 250, 10), Hand(250, 250, 300), Hand(100, 100, 300),
                Hand(100, 100, 50) } }

\* onGestureUpdate={setGestureState}: HandController hands AppContent a
\* gesture state.
OnGestureUpdate ==
    /\ mounted
    /\ pendingSets < MaxSets
    /\ \E g \in GestureStates : gestureState' = g
    /\ pendingSets' = pendingSets + 1
    /\ owed' = Min(owed + 1, MaxOwed)
    /\ NoPass
    /\ effectRun' = NoEffect
    /\ frameRun' = FALSE
    /\ UNCHANGED lifeVars
    /\ UNCHANGED sceneVars
    /\ UNCHANGED << requestRef, pendingFrames, videoTime, lastVideoTime,
                    previousState, controlsValues, effectDue, autoRotate,
                    pvScale, lastCandidate >>

BindingNext ==
    \/ OnGestureUpdate
    \/ RenderApp
    \/ GestureEffect
    \/ EditPvScale
    \/ EditAutoRotate

SpecBinding == Init /\ [][BindingNext]_vars
-----------------------------------------------------------------------------
(* A pinching hand in front of the camera while the user moves the PV      *)
(* Height control: the frame loop and AppContent once tracking is active.  *)

\* The loop effect has requested the first animation frame: the detector
\* is open, the camera live and playing, and no frame has been processed.
TrackingInit ==
    /\ mounted = TRUE
    /\ initPc = "done"
    /\ landmarkerRef = "open"
    /\ openLandmarkers = 1
    /\ camPc = "done"
    /\ streamRef = "live"
    /\ liveStreams = 1
    /\ isError = FALSE
    /\ cameraReady = TRUE
    /\ readyUpdate = "none"
    /\ status = "Active: Tracking Hands"
    /\ requestRef = 1
    /\ pendingFrames = {1}
    /\ videoTime = 0
    /\ lastVideoTime = -1
    /\ previousState = Neutral
    /\ passResult = "none"
    /\ result = NoDetection
    /\ newState = Neutral
    /\ gestureState = Neutral
    /\ pendingSets = 0
    /\ controlsValues = Controls(TRUE, InitialScale)
    /\ effectDue = NoDue
    /\ autoRotate = TRUE
    /\ pvScale = InitialScale
    /\ effectRun = NoEffect
    /\ lastCandidate = NoCandidate
    /\ owed = 0
    /\ stations = [ i \in 1..StationCount |-> StationOf(i) ]
    /\ scaleMultiplier = InitialScale
    /\ frameRun = FALSE
    /\ currentScale = MeshScale
    /\ placement = NoPlacement
    /\ instanceMatrix = [ i \in 1..StationCount |-> NoTransform ]
    /\ layoutRan = FALSE

\* The detections of a hand that keeps pinching, the thumb moving in steps
\* of 0.03, or leaves the frame.
PinchDetections == Detections({ Hand(250, 250, d) : d \in {10, 40, 70} })

\* predictWebcam on such a hand.
PinchPass ==
    \E id \in pendingFrames, playing \in BOOLEAN, r \in PinchDetections :
        \E tie \in Ties(previousState, Candidate(r)) :
            PredictWebcam(id, playing, r, tie)

PinchNext ==
    \/ VideoFrame
    \/ PinchPass
    \/ RenderApp
    \/ GestureEffect
    \/ EditPvScale

SpecPinch == TrackingInit /\ [][PinchNext]_vars
-----------------------------------------------------------------------------
(* The classifier on its own: one hand out of AllHands is classified. *)

ClassifyInit ==
    /\ mounted = TRUE
    /\ initPc = "done"
    /\ landmarkerRef = "open"
    /\ openLandmarkers = 1
    /\ camPc = "done"
    /\ streamRef = "live"
    /\ liveStreams = 1
    /\ isError = FALSE
    /\ cameraReady = TRUE
    /\ readyUpdate = "none"
    /\ status = "Active: Tracking Hands"
    /\ requestRef = 1
    /\ pendingFrames = {1}
    /\ videoTime = 1
    /\ lastVideoTime = 0
    /\ previousState = Neutral
    /\ passResult = "none"
    /\ result \in { r \in Detections(AllHands) : r.kind = "hand" }
    /\ newState = Neutral
    /\ gestureState = Neutral
    /\ pendingSets = 0
    /\ controlsValues = Controls(TRUE, InitialScale)
    /\ effectDue = NoDue
    /\ autoRotate = TRUE
    /\ pvScale = InitialScale
    /\ effectRun = NoEffect
    /\ lastCandidate = NoCandidate
    /\ owed = 0
    /\ stations = [ i \in 1..StationCount |-> StationOf(i) ]
    /\ scaleMultiplier = InitialScale
    /\ frameRun = FALSE
    /\ currentScale = MeshScale
    /\ placement = NoPlacement
    /\ instanceMatrix = [ i \in 1..StationCount |-> NoTransform ]
    /\ layoutRan = FALSE

ClassifyHand ==
    /\ passResult = "none"
    /\ passResult' = "classified"
    /\ newState' = Classify(result.landmarks, result.round)
    /\ UNCHANGED lifeVars
    /\ UNCHANGED sceneVars
    /\ UNCHANGED << requestRef, pendingFrames, videoTime, lastVideoTime,
                    previousState, result, lastCandidate,
                    owed, frameRun >>
    /\ UNCHANGED appVars

ClassifyNext == ClassifyHand

SpecClassify == ClassifyInit /\ [][ClassifyNext]_vars
-----------------------------------------------------------------------------
(* Earth: the scale of the station batch (SolarPanels, useFrame).  Scales   *)
(* are in thousandths: currentScale is the thousandth nearest to the scale  *)
(* of the mesh.                                                             *)

\* a / unit rounded to the nearest integer: the fixed-point value of a
\* product whose factors are both scaled.
Scaled(a, unit) ==
    IF a >= 0 THEN (2 * a + unit) \div (2 * unit)
              ELSE -((2 * (-a) + unit) \div (2 * unit))

\* The interpolation factor of the lerp, 0.1.
LerpAlpha == 100

\* targetScale = 1 + scaleMultiplier * 2, for a multiplier m.
TargetScale(m) == 1000 + m * 2

\* An interpolation that jumps to its target.
LerpSnaps(current, target, alpha) == {target}

\* Vector3.lerp on one component: current += (target - current) * alpha.
\* The component is known to the nearest thousandth, so it lies within half
\* a thousandth of `current`; the result is each thousandth that is nearest
\* to the program's result for some such component.
Lerp(current, target, alpha) ==
    LET mid   == (1000 - alpha) * current + alpha * target
        slack == (1000 - alpha) \div 2
    IN  Scaled(mid - slack, 1000) .. Scaled(mid + slack, 1000)

\* A render frame that also clears the instance matrices.
RenderFrameClearsInstances ==
    /\ mounted
    /\ layoutRan
    /\ \E scale \in Lerp(currentScale, TargetScale(scaleMultiplier),
                          LerpAlpha) :
          currentScale' = scale
    /\ instanceMatrix' = [ i \in DOMAIN instanceMatrix |-> NoTransform ]
    /\ NoPass
    /\ effectRun' = NoEffect
    /\ frameRun' = TRUE
    /\ UNCHANGED lifeVars
    /\ UNCHANGED << requestRef, pendingFrames, videoTime, lastVideoTime,
                    previousState, gestureState, pendingSets, controlsValues, effectDue, autoRotate,
                    pvScale, lastCandidate, owed, stations, scaleMultiplier, placement,
                    layoutRan >>

\* The useFrame callback of SolarPanels: one render frame.  The callback is
\* subscribed while SolarPanels is mounted (its mount is the commit that
\* runs the layout effect) and meshRef.current is set then.  It reads the
\* scaleMultiplier prop of the last render.
RenderFrame ==
    /\ mounted
    /\ layoutRan
    /\ \E scale \in Lerp(currentScale, TargetScale(scaleMultiplier),
                          LerpAlpha) :
          currentScale' = scale
    /\ NoPass
    /\ effectRun' = NoEffect
    /\ frameRun' = TRUE
    /\ UNCHANGED lifeVars
    /\ UNCHANGED << requestRef, pendingFrames, videoTime, lastVideoTime,
                    previousState, gestureState, pendingSets, controlsValues, effectDue, autoRotate,
                    pvScale, lastCandidate, owed, stations, scaleMultiplier, placement,
                    instanceMatrix, layoutRan >>

\* The Canvas root renders its mounted children again, in a task of its own
\* after the render of AppContent that handed them over: SolarPanels gets
\* as its scaleMultiplier prop the pvScale of that render of AppContent.
RenderSolarPanels ==
    /\ mounted
    /\ layoutRan
    /\ scaleMultiplier # controlsValues.pvScale
    /\ scaleMultiplier' = controlsValues.pvScale
    /\ NoPass
    /\ effectRun' = NoEffect
    /\ frameRun' = FALSE
    /\ UNCHANGED lifeVars
    /\ UNCHANGED << gestureState, pendingSets, controlsValues, effectDue,
                    autoRotate, pvScale >>
    /\ UNCHANGED << requestRef, pendingFrames, videoTime, lastVideoTime,
                    previousState, lastCandidate, owed, stations,
                    currentScale, placement, instanceMatrix, layoutRan >>

-----------------------------------------------------------------------------
(* Earth: placing the overlay and the stations on the globe.  Angles are in *)
(* tenths of a degree, lengths in hundredths, sines and the components of   *)
(* unit vectors and quaternions in ten-thousandths.                         *)

\* 1.0 as a sine or as the component of a unit vector.
One == 10000

\* EARTH_RADIUS = 50.
EarthRadius == 5000

\* The overlay floats 0.3 above the surface, a station 0.05.
OverlayAltitude == 30

StationAltitude == 5

\* HOBQ_CENTER = { lat: 40.2, lon: 108.5 }.
HobqCenter == [ lat |-> 402, lon |-> 1085 ]

\* 90 and 180 degrees.
QuarterTurn == 900

HalfTurn == 1800

\* Math.sin of 0.0, 0.1, ..., 90.0 degrees.
SinTable ==
    <<     0,    17,    35,    52,    70,    87,   105,   122,   140,   157,
         175,   192,   209,   227,   244,   262,   279,   297,   314,   332,
         349,   366,   384,   401,   419,   436,   454,   471,   488,   506,
         523,   541,   558,   576,   593,   610,   628,   645,   663,   680,
         698,   715,   732,   750,   767,   785,   802,   819,   837,   854,
         872,   889,   906,   924,   941,   958,   976,   993,  1011,  1028,
        1045,  1063,  1080,  1097,  1115,  1132,  1149,  1167,  1184,  1201,
        1219,  1236,  1253,  1271,  1288,  1305,  1323,  1340,  1357,  1374,
        1392,  1409,  1426,  1444,  1461,  1478,  1495,  1513,  1530,  1547,
        1564,  1582,  1599,  1616,  1633,  1650,  1668,  1685,  1702,  1719,
        1736,  1754,  1771,  1788,  1805,  1822,  1840,  1857,  1874,  1891,
        1908,  1925,  1942,  1959,  1977,  1994,  2011,  2028,  2045,  2062,
        2079,  2096,  2113,  2130,  2147,  2164,  2181,  2198,  2215,  2233,
        2250,  2267,  2284,  2300,  2317,  2334,  2351,  2368,  2385,  2402,
        2419,  2436,  2453,  2470,  2487,  2504,  2521,  2538,  2554,  2571,
        2588,  2605,  2622,  2639,  2656,  2672,  2689,  2706,  2723,  2740,
        2756,  2773,  2790,  2807,  2823,  2840,  2857,  2874,  2890,  2907,
        2924,  2940,  2957,  2974,  2990,  3007,  3024,  3040,  3057,  3074,
        3090,  3107,  3123,  3140,  3156,  3173,  3190,  3206,  3223,  3239,
        3256,  3272,  3289,  3305,  3322,  3338,  3355,  3371,  3387,  3404,
        3420,  3437,  3453,  3469,  3486,  3502,  3518,  3535,  3551,  3567,
        3584,  3600,  3616,  3633,  3649,  3665,  3681,  3697,  3714,  3730,
        3746,  3762,  3778,  3795,  3811,  3827,  3843,  3859,  3875,  3891,
        3907,  3923,  3939,  3955,  3971,  3987,  4003,  4019,  4035,  4051,
        4067,  4083,  4099,  4115,  4131,  4147,  4163,  4179,  4195,  4210,
        4226,  4242,  4258,  4274,  4289,  4305,  4321,  4337,  4352,  4368,
        4384,  4399,  4415,  4431,  4446,  4462,  4478,  4493,  4509,  4524,
        4540,  4555,  4571,  4586,  4602,  4617,  4633,  4648,  4664,  4679,
        4695,  4710,  4726,  4741,  4756,  4772,  4787,  4802,  4818,  4833,
        4848,  4863,  4879,  4894,  4909,  4924,  4939,  4955,  4970,  4985,
        5000,  5015,  5030,  5045,  5060,  5075,  5090,  5105,  5120,  5135,
        5150,  5165,  5180,  5195,  5210,  5225,  5240,  5255,  5270,  5284,
        5299,  5314,  5329,  5344,  5358,  5373,  5388,  5402,  5417,  5432,
        5446,  5461,  5476,  5490,  5505,  5519,  5534,  5548,  5563,  5577,
        5592,  5606,  5621,  5635,  5650,  5664,  5678,  5693,  5707,  5721,
        5736,  5750,  5764,  5779,  5793,  5807,  5821,  5835,  5850,  5864,
        5878,  5892,  5906,  5920,  5934,  5948,  5962,  5976,  5990,  6004,
        6018,  6032,  6046,  6060,  6074,  6088,  6101,  6115,  6129,  6143,
        6157,  6170,  6184,  6198,  6211,  6225,  6239,  6252,  6266,  6280,
        6293,  6307,  6320,  6334,  6347,  6361,  6374,  6388,  6401,  6414,
        6428,  6441,  6455,  6468,  6481,  6494,  6508,  6521,  6534,  6547,
        6561,  6574,  6587,  6600,  6613,  6626,  6639,  6652,  6665,  6678,
        6691,  6704,  6717,  6730,  6743,  6756,  6769,  6782,  6794,  6807,
        6820,  6833,  6845,  6858,  6871,  6884,  6896,  6909,  6921,  6934,
        6947,  6959,  6972,  6984,  6997,  7009,  7022,  7034,  7046,  7059,
        7071,  7083,  7096,  7108,  7120,  7133,  7145,  7157,  7169,  7181,
        7193,  7206,  7218,  7230,  7242,  7254,  7266,  7278,  7290,  7302,
        7314,  7325,  7337,  7349,  7361,  7373,  7385,  7396,  7408,  7420,
        7431,  7443,  7455,  7466,  7478,  7490,  7501,  7513,  7524,  7536,
        7547,  7559,  7570,  7581,  7593,  7604,  7615,  7627,  7638,  7649,
        7660,  7672,  7683,  7694,  7705,  7716,  7727,  7738,  7749,  7760,
        7771,  7782,  7793,  7804,  7815,  7826,  7837,  7848,  7859,  7869,
        7880,  7891,  7902,  7912,  7923,  7934,  7944,  7955,  7965,  7976,
        7986,  7997,  8007,  8018,  8028,  8039,  8049,  8059,  8070,  8080,
        8090,  8100,  8111,  8121,  8131,  8141,  8151,  8161,  8171,  8181,
        8192,  8202,  8211,  8221,  8231,  8241,  8251,  8261,  8271,  8281,
        8290,  8300,  8310,  8320,  8329,  8339,  8348,  8358,  8368,  8377,
        8387,  8396,  8406,  8415,  8425,  8434,  8443,  8453,  8462,  8471,
        8480,  8490,  8499,  8508,  8517,  8526,  8536,  8545,  8554,  8563,
        8572,  8581,  8590,  8599,  8607,  8616,  8625,  8634,  8643,  8652,
        8660,  8669,  8678,  8686,  8695,  8704,  8712,  8721,  8729,  8738,
        8746,  8755,  8763,  8771,  8780,  8788,  8796,  8805,  8813,  8821,
        8829,  8838,  8846,  8854,  8862,  8870,  8878,  8886,  8894,  8902,
        8910,  8918,  8926,  8934,  8942,  8949,  8957,  8965,  8973,  8980,
        8988,  8996,  9003,  9011,  9018,  9026,  9033,  9041,  9048,  9056,
        9063,  9070,  9078,  9085,  9092,  9100,  9107,  9114,  9121,  9128,
        9135,  9143,  9150,  9157,  9164,  9171,  9178,  9184,  9191,  9198,
        9205,  9212,  9219,  9225,  9232,  9239,  9245,  9252,  9259,  9265,
        9272,  9278,  9285,  9291,  9298,  9304,  9311,  9317,  9323,  9330,
        9336,  9342,  9348,  9354,  9361,  9367,  9373,  9379,  9385,  9391,
        9397,  9403,  9409,  9415,  9421,  9426,  9432,  9438,  9444,  9449,
        9455,  9461,  9466,  9472,  9478,  9483,  9489,  9494,  9500,  9505,
        9511,  9516,  9521,  9527,  9532,  9537,  9542,  9548,  9553,  9558,
        9563,  9568,  9573,  9578,  9583,  9588,  9593,  9598,  9603,  9608,
        9613,  9617,  9622,  9627,  9632,  9636,  9641,  9646,  9650,  9655,
        9659,  9664,  9668,  9673,  9677,  9681,  9686,  9690,  9694,  9699,
        9703,  9707,  9711,  9715,  9720,  9724,  9728,  9732,  9736,  9740,
        9744,  9748,  9751,  9755,  9759,  9763,  9767,  9770,  9774,  9778,
        9781,  9785,  9789,  9792,  9796,  9799,  9803,  9806,  9810,  9813,
        9816,  9820,  9823,  9826,  9829,  9833,  9836,  9839,  9842,  9845,
        9848,  9851,  9854,  9857,  9860,  9863,  9866,  9869,  9871,  9874,
        9877,  9880,  9882,  9885,  9888,  9890,  9893,  9895,  9898,  9900,
        9903,  9905,  9907,  9910,  9912,  9914,  9917,  9919,  9921,  9923,
        9925,  9928,  9930,  9932,  9934,  9936,  9938,  9940,  9942,  9943,
        9945,  9947,  9949,  9951,  9952,  9954,  9956,  9957,  9959,  9960,
        9962,  9963,  9965,  9966,  9968,  9969,  9971,  9972,  9973,  9974,
        9976,  9977,  9978,  9979,  9980,  9981,  9982,  9983,  9984,  9985,
        9986,  9987,  9988,  9989,  9990,  9990,  9991,  9992,  9993,  9993,
        9994,  9995,  9995,  9996,  9996,  9997,  9997,  9997,  9998,  9998,
        9998,  9999,  9999,  9999,  9999, 10000, 10000, 10000, 10000, 10000,
       10000 >>

\* Math.sin and Math.cos of an angle a, 0 <= a <= 450 degrees (the program
\* multiplies by Math.PI / 180 first).
Sin(a) ==
    LET d == a % (2 * HalfTurn)
    IN  IF d <= QuarterTurn THEN SinTable[d + 1]
        ELSE IF d <= HalfTurn THEN SinTable[HalfTurn - d + 1]
        ELSE IF d <= HalfTurn + QuarterTurn THEN -SinTable[d - HalfTurn + 1]
        ELSE -SinTable[2 * HalfTurn - d + 1]

Cos(a) == Sin(a + QuarterTurn)

Vec(vx, vy, vz) == [x |-> vx, y |-> vy, z |-> vz]

Quat(qx, qy, qz, qw) == [x |-> qx, y |-> qy, z |-> qz, w |-> qw]

\* Math.sqrt rounded to the nearest integer, for n up to 9 * 10^8.
Sqrt(n) ==
    LET s == SqrtSearch(n, 0, 30000)
    IN  IF (s + 1) * (s + 1) - n < n - s * s THEN s + 1 ELSE s

\* 10 * Math.sqrt(n) to the nearest integer, for 1 <= n < 2^31.
TenSqrt(n) ==
    LET s == SqrtSearch(n, 0, 46340)
    IN  10 * s + (10 * (n - s * s) + s) \div (2 * s)

\* The power of ten that brings a largest component m, 1 <= m <= One, into
\* One \div 10 .. One, so that the length keeps four digits.
Magnify(m) ==
    IF m * 1000 <= One THEN 1000
    ELSE IF m * 100 <= One THEN 100
    ELSE IF m * 10 <= One THEN 10
    ELSE 1

\* c / length in ten-thousandths, for components up to 2 * One, m being the
\* largest of them and n the sum of their squares.
Unit(c, m, n) ==
    IF m > One THEN Scaled(c * One, Sqrt(n))
    ELSE LET k == Magnify(m)
         IN  Scaled(c * k * One * 10, TenSqrt(k * k * n))

\* Vector3.normalize: the vector divided by its length (a vector of length
\* 0 is left as it is).
Normalize(v) ==
    LET m == Max(Abs(v.x), Max(Abs(v.y), Abs(v.z)))
        n == v.x * v.x + v.y * v.y + v.z * v.z
    IN  IF m = 0 THEN Vec(0, 0, 0)
        ELSE Vec(Unit(v.x, m, n), Unit(v.y, m, n), Unit(v.z, m, n))

\* Quaternion.normalize: the identity when the length is 0.
NormalizeQuat(q) ==
    LET m == Max(Max(Abs(q.x), Abs(q.y)), Max(Abs(q.z), Abs(q.w)))
        n == q.x * q.x + q.y * q.y + q.z * q.z + q.w * q.w
    IN  IF m = 0 THEN Quat(0, 0, 0, One)
        ELSE Quat(Unit(q.x, m, n), Unit(q.y, m, n), Unit(q.z, m, n),
                  Unit(q.w, m, n))

\* The canonical up axis, new Vector3(0, 1, 0).
Up == Vec(0, One, 0)

\* The overlay position: a point at `center` (HOBQ_CENTER in the program),
\* 0.3 above the surface.
OverlayPosition(center) ==
    LET phi   == QuarterTurn - center.lat
        theta == center.lon + HalfTurn
        r     == EarthRadius + OverlayAltitude
    IN  Vec(-Scaled(Scaled(r * Sin(phi), One) * Cos(theta), One),
            Scaled(r * Cos(phi), One),
            Scaled(Scaled(r * Sin(phi), One) * Sin(theta), One))

\* A station position whose x is not negated.
StationPositionUnflipped(station) ==
    LET phi   == QuarterTurn - station.lat
        theta == station.lon + HalfTurn
        r     == EarthRadius + StationAltitude
    IN  [ x |-> Scaled(Scaled(r * Sin(phi), One) * Cos(theta), One),
          z |-> Scaled(Scaled(r * Sin(phi), One) * Sin(theta), One),
          y |-> Scaled(r * Cos(phi), One) ]

\* dummy.position of a station: x, then z, then y.
StationPosition(station) ==
    LET phi   == QuarterTurn - station.lat
        theta == station.lon + HalfTurn
        r     == EarthRadius + StationAltitude
    IN  [ x |-> -Scaled(Scaled(r * Sin(phi), One) * Cos(theta), One),
          z |-> Scaled(Scaled(r * Sin(phi), One) * Sin(theta), One),
          y |-> Scaled(r * Cos(phi), One) ]

\* A rotation built from the cross product alone, with no case for
\* opposite vectors.
SetFromUnitVectorsByCross(vFrom, vTo) ==
    LET r == Scaled(vFrom.x * vTo.x + vFrom.y * vTo.y + vFrom.z * vTo.z, One)
               + One
    IN  NormalizeQuat(Quat(Scaled(vFrom.y * vTo.z - vFrom.z * vTo.y, One),
                           Scaled(vFrom.z * vTo.x - vFrom.x * vTo.z, One),
                           Scaled(vFrom.x * vTo.y - vFrom.y * vTo.x, One),
                           r))

\* Quaternion.setFromUnitVectors(vFrom, vTo) as three.js computes it:
\* r = vFrom . vTo + 1; when r is below Number.EPSILON the vectors are
\* opposite and a half turn around an axis perpendicular to vFrom is taken,
\* otherwise (vFrom x vTo, r); then the quaternion is normalized.
SetFromUnitVectors(vFrom, vTo) ==
    LET r == Scaled(vFrom.x * vTo.x + vFrom.y * vTo.y + vFrom.z * vTo.z, One)
               + One
    IN  IF r < 1
        THEN IF Abs(vFrom.x) > Abs(vFrom.z)
             THEN NormalizeQuat(Quat(-vFrom.y, vFrom.x, 0, 0))
             ELSE NormalizeQuat(Quat(0, -vFrom.z, vFrom.y, 0))
        ELSE NormalizeQuat(Quat(Scaled(vFrom.y * vTo.z - vFrom.z * vTo.y, One),
                                Scaled(vFrom.z * vTo.x - vFrom.x * vTo.z, One),
                                Scaled(vFrom.x * vTo.y - vFrom.y * vTo.x, One),
                                r))

\* HobqDataOverlay: the position memo and the quaternion memo.
Overlay ==
    LET position == OverlayPosition(HobqCenter)
        target   == Normalize(position)
    IN  [ site       |-> "overlay",
          coord      |-> HobqCenter,
          position   |-> position,
          quaternion |-> SetFromUnitVectors(Up, target) ]

\* Coordinates the station projection is computed at: every 15 degrees of
\* latitude and of longitude, with both poles and the origin, HOBQ_CENTER,
\* and the coordinates the stations are drawn from.
Latitudes == { 150 * k : k \in -6..6 } \cup {396, 400, 402, 403}

Longitudes == { 150 * k : k \in -12..12 } \cup {1063, 1075, 1085, 1087}

Coordinates == { [lat |-> a, lon |-> o] : a \in Latitudes, o \in Longitudes }

\* SolarPanels, one round of the forEach in the layout effect up to the
\* orientation, at each coordinate: dummy.position, and the quaternion that
\* is copied into dummy.quaternion and replaces what lookAt had set.
StationAt ==
    [ station \in Coordinates |->
        LET position == StationPosition(station)
            target   == Normalize(position)
        IN  [ site       |-> "station",
              coord      |-> station,
              position   |-> position,
              quaternion |-> SetFromUnitVectors(Up, target) ] ]

-----------------------------------------------------------------------------
(* The projection on its own: a coordinate is drawn and the position and   *)
(* orientation of a station there are computed; the overlay is computed at *)
(* HOBQ_CENTER.                                                             *)

PlaceInit ==
    /\ Mounted
    /\ stations = [ i \in 1..StationCount |-> StationOf(i) ]
    /\ placement \in { [ site |-> "input", coord |-> c ] : c \in Coordinates }

\* The step changed nothing but the placement.
PlacementOnly ==
    /\ NoPass
    /\ effectRun' = NoEffect
    /\ frameRun' = FALSE
    /\ UNCHANGED lifeVars
    /\ UNCHANGED << requestRef, pendingFrames, videoTime, lastVideoTime,
                    previousState, gestureState, pendingSets, controlsValues,
                    effectDue, autoRotate, pvScale, lastCandidate, owed,
                    stations, scaleMultiplier, currentScale, instanceMatrix, layoutRan >>

\* The position and orientation of a station at the coordinate drawn.
ProjectStation ==
    /\ placement.site = "input"
    /\ placement' = StationAt[placement.coord]
    /\ PlacementOnly

\* HobqDataOverlay mounts: its two memos are computed.
MountOverlay ==
    /\ placement.site = "input"
    /\ placement' = Overlay
    /\ PlacementOnly

PlaceNext ==
    \/ ProjectStation
    \/ MountOverlay

SpecPlace == PlaceInit /\ [][PlaceNext]_vars
-----------------------------------------------------------------------------
(* Earth: the station instances (SolarPanels, useLayoutEffect).  Sizes are  *)
(* in thousandths.                                                          *)

\* size = Large ? 0.3 : Medium ? 0.2 : 0.1.
InstanceSize(type) ==
    IF type = "Large" THEN 300 ELSE IF type = "Medium" THEN 200 ELSE 100

\* dummy.matrix of one station after updateMatrix: position, quaternion and
\* scale.
InstanceTransform(station) ==
    LET at == StationAt[[lat |-> station.lat, lon |-> station.lon]]
    IN  [ written    |-> TRUE,
          position   |-> at.position,
          quaternion |-> at.quaternion,
          scale      |-> InstanceSize(station.type) ]

\* The state after construction, with each draw of the stations.
PanelsInit ==
    /\ Mounted
    /\ stations \in StationDraws
    /\ placement = NoPlacement

\* The Canvas root mounts the scene: SolarPanels is rendered with the
\* pvScale of the last render of AppContent as its scaleMultiplier prop, and
\* the same commit runs its layout effect, which has no dependencies, so it
\* runs this once and writes the instance matrix of every station in one
\* pass.
LayoutEffect ==
    /\ mounted
    /\ ~layoutRan
    /\ layoutRan' = TRUE
    /\ scaleMultiplier' = controlsValues.pvScale
    /\ instanceMatrix' = [ i \in 1..StationCount |->
                             InstanceTransform(stations[i]) ]
    /\ NoPass
    /\ effectRun' = NoEffect
    /\ frameRun' = FALSE
    /\ UNCHANGED lifeVars
    /\ UNCHANGED << requestRef, pendingFrames, videoTime, lastVideoTime,
                    previousState, gestureState, pendingSets, controlsValues,
                    effectDue, autoRotate, pvScale, lastCandidate, owed,
                    stations, currentScale, placement >>

\* The values the user moves the PV Height control to while the batch
\* scale is watched: the two ends of its range and a value between them.
FrameScales == {ScaleMin, 985, ScaleMax}

\* SolarPanels from its mount on and the renderer, while the user moves
\* the PV Height control.
ScaleNext ==
    \/ LayoutEffect
    \/ RenderFrame
    \/ \E v \in FrameScales : EditPvScaleTo(v)
    \/ RenderApp
    \/ RenderSolarPanels

SpecScale == Init /\ [][ScaleNext]_vars

\* The values the user moves the PV Height control to while the instances
\* are watched: the two ends of its range.
PanelScales == {ScaleMin, ScaleMax}

\* SolarPanels from its mount on, while the user moves the PV Height
\* control.
PanelsNext ==
    \/ LayoutEffect
    \/ RenderFrame
    \/ \E v \in PanelScales : EditPvScaleTo(v)
    \/ RenderApp
    \/ RenderSolarPanels

SpecPanels == PanelsInit /\ [][PanelsNext]_vars
-----------------------------------------------------------------------------
(* Properties. *)

\* C1: in every reachable state pvScale lies in [0, 1], whatever gesture
\* effects and user edits of the control came before.
C1_PvScaleInRange == pvScale >= ScaleMin /\ pvScale <= ScaleMax

\* A pinch was applied to a pvScale from which + 0.02 passes 1.0, and the
\* control holds 1.0.
C1_Witness ==
    /\ effectRun.ran
    /\ effectRun.gesture.isPinching
    /\ effectRun.scaleSeen + ScaleStep > ScaleMax
    /\ effectRun.scaleSeen < ScaleMax
    /\ effectRun.scaleBefore = effectRun.scaleSeen
    /\ pvScale = ScaleMax

\* C2: a processed frame's candidate is emitted exactly when a flag differs
\* from the last emitted state or the pinch distance moved by more than
\* 0.05 (two distances whose thousandths are exactly 0.05 apart compare as
\* the program's doubles do, either way); the last emitted state is replaced
\* exactly on emission; a candidate that differs in cursor position only is
\* not emitted.
C2_ThrottleEmitsIffChanged ==
    [][ passResult' \in {"emit", "quiet"} =>
          LET emitted == passResult' = "emit"
              flag ==
                \/ newState'.isPalmOpen # previousState.isPalmOpen
                \/ newState'.isFist # previousState.isFist
                \/ newState'.isPinching # previousState.isPinching
              moved ==
                IF newState'.pinchDistance > previousState.pinchDistance
                THEN newState'.pinchDistance - previousState.pinchDistance
                ELSE previousState.pinchDistance - newState'.pinchDistance
          IN  /\ (flag \/ moved > 50) => emitted
              /\ (~flag /\ moved < 50) => ~emitted
              /\ emitted =>
                    /\ previousState' = newState'
                    /\ gestureState' = newState'
                    /\ pendingSets' = pendingSets + 1
              /\ ~emitted =>
                    UNCHANGED << previousState, gestureState, pendingSets >>
      ]_vars

\* A frame whose candidate differs from the last emitted state in cursor
\* position only went by without an emission.
C2_Witness ==
    /\ passResult = "quiet"
    /\ newState.handPosition # previousState.handPosition
    /\ newState.isPalmOpen = previousState.isPalmOpen
    /\ newState.isFist = previousState.isFist
    /\ newState.isPinching = previousState.isPinching
    /\ newState.pinchDistance = previousState.pinchDistance
    /\ newState.isPalmOpen

\* C3 as stated: every gesture effect with pinching = true either raises
\* pvScale by exactly 0.02, or leaves it alone because it equals 1.0.
C3_ExactStepsUntilOne ==
    [][ (effectRun'.ran /\ effectRun'.gesture.isPinching) =>
          \/ pvScale' = pvScale + 20 /\ pvScale' <= 1000
          \/ pvScale' = pvScale /\ pvScale = 1000
      ]_vars

\* C3, amended: a gesture effect with pinching = true reads the value v of
\* pvScale that AppContent rendered last and either writes min(1, v + 0.02)
\* or writes nothing; what it writes is v + 0.02 exactly for v of at most
\* 0.98; a rise above 0.01 is always written and a rise below 0.01 never,
\* so pvScale never exceeds 1.0 and a v in (0.99, 1] leaves pvScale as it
\* is.
C3_StepsClampedAtOne ==
    [][ (effectRun'.ran /\ effectRun'.gesture.isPinching) =>
          LET v    == effectRun'.scaleSeen
              rise == (IF v + 20 > 1000 THEN 1000 ELSE v + 20) - v
          IN  /\ pvScale' \in {pvScale, v + rise}
              /\ pvScale' <= 1000
              /\ v <= 980 => pvScale' = v + 20
              /\ rise > 10 => pvScale' = v + rise
              /\ rise < 10 => pvScale' = pvScale
      ]_vars

\* A pinch was applied at 0.985 and raised pvScale by 0.015 to 1.0.
C3_Witness ==
    /\ effectRun.ran
    /\ effectRun.gesture.isPinching
    /\ effectRun.scaleSeen = 985
    /\ effectRun.scaleBefore = 985
    /\ pvScale = 1000

\* C9 as stated: a gesture effect turns autoRotate on when the palm is open
\* and autoRotate is off, turns it off when the hand is a fist and
\* autoRotate is on, and leaves it alone in every other case.
C9_RotationRules ==
    [][ effectRun'.ran =>
          autoRotate' =
            IF effectRun'.gesture.isPalmOpen /\ ~autoRotate THEN TRUE
            ELSE IF effectRun'.gesture.isFist /\ autoRotate THEN FALSE
            ELSE autoRotate
      ]_vars

\* Squared distance between two landmarks.
SqDist(a, b) == (a.x - b.x) * (a.x - b.x) + (a.y - b.y) * (a.y - b.y)

\* C4 as stated: a classified state has at most one of the three flags set,
\* and a hand whose pinch distance is below 0.08 is classified as pinching,
\* not a fist and not an open palm.
C4_FlagsMutuallyExclusive ==
    (passResult \in {"emit", "quiet"} /\ result.kind = "hand") =>
        /\ ~(newState.isPinching /\ newState.isFist)
        /\ ~(newState.isPinching /\ newState.isPalmOpen)
        /\ ~(newState.isFist /\ newState.isPalmOpen)
        /\ SqDist(result.landmarks.thumbTip, result.landmarks.indexTip) < 80 * 80
              => (newState.isPinching /\ ~newState.isFist /\ ~newState.isPalmOpen)

\* C5 as stated: once teardown has run and every asynchronous set-up step
\* has completed, no camera stream is live and no detector handle is open.
C5_ReleasedAfterTeardown ==
    (~mounted /\ initPc = "done" /\ camPc \in {"idle", "done", "failed"}) =>
        (liveStreams = 0 /\ openLandmarkers = 0)

\* A distance of square sq compared with a threshold t by a strict test of
\* the doubles: off the threshold the thousandths decide, on it the test
\* comes out as the doubles round.
Strictly(holds, sq, t, rounded) == holds \/ (sq = t * t /\ rounded)

\* C6: the classifier returns isPinching = (pinchDist < 0.08), isFist =
\* (dIndex < 0.15 and dPinky < 0.15), isPalmOpen = (not isFist and not
\* isPinching and dIndex > 0.2), the distances being the Euclidean
\* distances as the doubles hold them; so two fingers at 0.1 give a fist
\* whatever the pinch distance, fingers at 0.25 with a pinch distance of
\* 0.3 give an open palm, and a hand meeting none of the tests has no flag
\* set.
C6_ClassifierThresholds ==
    passResult = "classified" =>
        LET lm       == result.landmarks
            rd       == result.round
            pinchSq  == SqDist(lm.thumbTip, lm.indexTip)
            indexSq  == SqDist(lm.indexTip, lm.wrist)
            pinkySq  == SqDist(lm.pinkyTip, lm.wrist)
            pinching == Strictly(pinchSq < 80 * 80, pinchSq, 80, rd.pinch)
            fist     == /\ Strictly(indexSq < 150 * 150, indexSq, 150, rd.index)
                        /\ Strictly(pinkySq < 150 * 150, pinkySq, 150, rd.pinky)
            far      == Strictly(indexSq > 200 * 200, indexSq, 200, rd.index)
            palm     == ~fist /\ ~pinching /\ far
        IN  /\ newState.isPinching = pinching
            /\ newState.isFist = fist
            /\ newState.isPalmOpen = palm
            /\ (indexSq = 100 * 100 /\ pinkySq = 100 * 100) => newState.isFist
            /\ (indexSq = 250 * 250 /\ pinkySq = 250 * 250 /\ pinchSq = 300 * 300)
                  => newState.isPalmOpen
            /\ (~pinching /\ ~fist /\ ~far) =>
                  (~newState.isPinching /\ ~newState.isFist /\ ~newState.isPalmOpen)
            /\ newState.pinchDistance * newState.pinchDistance <= pinchSq
            /\ pinchSq < (newState.pinchDistance + 1) * (newState.pinchDistance + 1)

\* A hand with both fingers 0.1 from the wrist and the thumb 0.3 from the
\* index tip was classified as a fist.
C6_Witness ==
    /\ passResult = "classified"
    /\ SqDist(result.landmarks.indexTip, result.landmarks.wrist) = 100 * 100
    /\ SqDist(result.landmarks.pinkyTip, result.landmarks.wrist) = 100 * 100
    /\ newState.pinchDistance = 300
    /\ newState.isFist

\* C7: a frame-loop pass that finds video.currentTime equal to the last
\* processed timestamp runs no detection, emits nothing and leaves the last
\* emitted state alone.
C7_TimestampGate ==
    [][ (passResult' # "none" /\ videoTime = lastVideoTime) =>
          /\ result'.kind = "none"
          /\ passResult' \notin {"emit", "quiet", "throw"}
          /\ UNCHANGED << previousState, gestureState, pendingSets, lastVideoTime >>
      ]_vars

\* A second pass over a frame that had produced an emission was gated.
C7_Witness ==
    /\ passResult = "gate"
    /\ videoTime = lastVideoTime
    /\ previousState # Neutral
    /\ pendingSets > 0

\* C8: a frame whose detection throws emits nothing, leaves the last emitted
\* state alone, counts as processed, and the next pass is requested.
C8_ThrowSkipsFrame ==
    [][ result'.kind = "throw" =>
          /\ UNCHANGED << previousState, gestureState, pendingSets >>
          /\ lastVideoTime' = videoTime
          /\ requestRef' \in pendingFrames'
      ]_vars

\* Detection threw on a frame after an earlier frame had been emitted, and a
\* callback is pending.
C8_Witness ==
    /\ passResult = "throw"
    /\ previousState # Neutral
    /\ lastVideoTime = videoTime
    /\ pendingFrames # {}

\* C10 as stated: every run of the gesture effect answers exactly one
\* emission, so no emission is coalesced with another, and it reads the
\* controls as they are when it runs.
C10_OneEffectPerEmission ==
    effectRun.ran =>
        /\ effectRun.sets = 1
        /\ effectRun.rotateSeen = effectRun.rotateBefore
        /\ effectRun.scaleSeen = effectRun.scaleBefore

\* C11: once the component is torn down no animation-frame callback stays
\* scheduled and no pass of the frame loop runs, whether teardown found the
\* loop idle or with a callback pending, and whatever step camera set-up had
\* reached.
C11_NoLoopAfterTeardown ==
    ~mounted => /\ pendingFrames = {}
                /\ passResult = "none"

\* C11: teardown happened while the loop had a callback scheduled.
C11_Witness ==
    /\ ~mounted
    /\ cameraReady
    /\ requestRef # 0
    /\ pendingFrames = {}

\* C12: while mounted, cameraReady and the status "Active: Tracking Hands"
\* each imply that the detector exists, and a frame is classified only when
\* both the camera and the detector are ready.
C12_LoopNeedsCameraAndDetector ==
    /\ (mounted /\ (cameraReady \/ status = "Active: Tracking Hands"))
          => landmarkerRef = "open"
    /\ passResult \in {"emit", "quiet", "throw"}
          => (cameraReady /\ landmarkerRef = "open")
\* C13: while mounted, a failed camera acquisition, a failed play() and a
\* failed detector initialization each leave isError set; in the error state
\* the retry action is available, the user can still edit the controls, and
\* no gesture is emitted, pending or applied.
C13_FailureShowsRetry ==
    /\ (mounted /\ (camPc = "failed" \/ status \in
            {"Camera Error", "Autoplay prevented", "AI Init Failed"}))
          => isError
    /\ (mounted /\ isError)
          => /\ ENABLED RetryCamera
             /\ ENABLED EditPvScale
             /\ ENABLED EditAutoRotate
             /\ ~ENABLED GestureEffect
             /\ ~ENABLED FramePass
             /\ passResult = "none"
             /\ ~effectRun.ran

\* C13: the detector is open, the camera stream is live and playback was
\* refused: the error state, with the retry at hand.
C13_Witness ==
    /\ mounted
    /\ isError
    /\ status = "Autoplay prevented"
    /\ landmarkerRef = "open"
    /\ streamRef = "live"
\* Two states that differ in pinchDistance only, by exactly d thousandths.
OnlyPinchDiffers(a, b, d) ==
    /\ a.isPalmOpen = b.isPalmOpen
    /\ a.isFist = b.isFist
    /\ a.isPinching = b.isPinching
    /\ a.handPosition = b.handPosition
    /\ Abs(a.pinchDistance - b.pinchDistance) = d

\* The step classified a hand, and the latest frame classified before it
\* also held a hand.
SecondOfTwoHands ==
    /\ passResult' \in {"emit", "quiet"}
    /\ result'.kind = "hand"
    /\ lastCandidate.kind = "hand"

\* C14 (as stated): of two consecutive classifications that differ only in
\* pinchDistance, the second is never emitted when they differ by 0.03 and
\* always emitted when they differ by 0.06, whatever frames came before.
C14_ConsecutiveDelta ==
    [][ SecondOfTwoHands =>
          /\ OnlyPinchDiffers(lastCandidate.state, newState', 30)
                => passResult' = "quiet"
          /\ OnlyPinchDiffers(lastCandidate.state, newState', 60)
                => passResult' = "emit" ]_vars

\* C14 (amended): when the first of two consecutive classifications is the
\* last emitted state and they differ only in pinchDistance, the second is
\* not emitted at a difference of 0.03 and is emitted at a difference of
\* 0.06.
C14_DeltaAgainstEmitted ==
    [][ (SecondOfTwoHands /\ lastCandidate.state = previousState) =>
          /\ OnlyPinchDiffers(lastCandidate.state, newState', 30)
                => passResult' = "quiet"
          /\ OnlyPinchDiffers(lastCandidate.state, newState', 60)
                => passResult' = "emit" ]_vars

\* C14: the first frame was emitted with pinchDistance 0.01 and the second
\* frame, the same hand at 0.04, has just been classified and not emitted.
C14_Witness ==
    /\ passResult = "quiet"
    /\ result.kind = "hand"
    /\ lastVideoTime = 1
    /\ previousState.pinchDistance = 10
    /\ OnlyPinchDiffers(previousState, newState, 30)
\* The landmark coordinates of a hand all lie in [0, 1].
Normalized(h) ==
    \A p \in {h.wrist, h.thumbTip, h.indexTip, h.pinkyTip} :
        /\ p.x >= 0 /\ p.x <= CoordMax
        /\ p.y >= 0 /\ p.y <= CoordMax

\* The ranges of an emitted state and the mirroring of its cursor, with
\* pinchDistance squared bounded by maxSq (in thousandths squared).
EmittedWithin(maxSq) ==
    (passResult = "emit"
       /\ (result.kind = "hand" => Normalized(result.landmarks))) =>
        /\ newState.pinchDistance >= 0
        /\ newState.pinchDistance * newState.pinchDistance <= maxSq
        /\ newState.handPosition.x >= 0
        /\ newState.handPosition.x <= CoordMax
        /\ newState.handPosition.y >= 0
        /\ newState.handPosition.y <= CoordMax
        /\ result.kind = "hand" =>
              /\ newState.handPosition.x = CoordMax - result.landmarks.indexTip.x
              /\ newState.handPosition.y = result.landmarks.indexTip.y

\* C15 (as stated): for landmarks normalized to [0, 1], every emitted state
\* has pinchDistance in [0, 1] and its cursor in the unit square, the
\* cursor being the index tip mirrored in x, (1 - x, y).
C15_EmittedInUnitRange == EmittedWithin(CoordMax * CoordMax)

\* C15 (amended): for landmarks normalized to [0, 1], every emitted state
\* has pinchDistance in [0, sqrt(2)], the largest distance of two points of
\* the unit square, and its cursor in the unit square, the cursor being the
\* index tip mirrored in x, (1 - x, y).
C15_EmittedInUnitSquare == EmittedWithin(2 * CoordMax * CoordMax)

\* C15: a hand with the thumb tip and the index tip in opposite corners
\* was emitted; its cursor is the mirrored corner.
C15_Witness ==
    /\ passResult = "emit"
    /\ result.kind = "hand"
    /\ result.landmarks.indexTip = Point(CoordMax, 0)
    /\ newState.handPosition = Point(0, 0)
    /\ newState.pinchDistance > CoordMax
\* C16: a processed frame without a hand has the neutral state as its
\* candidate (no flag, pinchDistance 0, cursor (0.5, 0.5)); it is emitted
\* exactly when the last emitted state has a flag set or a pinchDistance
\* above 0.05; and when the latest frame classified before it also had no
\* hand it is not emitted, so a run of no-hand frames emits at most once.
C16_NoHandEmitsOnce ==
    [][ (passResult' \in {"emit", "quiet"} /\ result'.kind = "empty") =>
          /\ newState' = [ isPalmOpen    |-> FALSE,
                           isFist        |-> FALSE,
                           isPinching    |-> FALSE,
                           pinchDistance |-> 0,
                           handPosition  |-> [x |-> 500, y |-> 500] ]
          /\ (passResult' = "emit") <=>
                \/ previousState.isPalmOpen
                \/ previousState.isFist
                \/ previousState.isPinching
                \/ previousState.pinchDistance > 50
          /\ lastCandidate.kind = "empty" => passResult' = "quiet" ]_vars

\* C16: the neutral state was emitted for a frame without a hand after a
\* hand had been emitted, and the next frame without a hand has just been
\* processed without an emission.
C16_Witness ==
    /\ passResult = "quiet"
    /\ result.kind = "empty"
    /\ lastVideoTime = 2
    /\ previousState = Neutral
    /\ gestureState = Neutral
    /\ pendingSets = 2
\* autoRotate after the two rotation rules are applied to gesture g in the
\* order given: "palm" first as the effect has them, or "fist" first.
RulesInOrder(first, g, rotate) ==
    IF first = "palm"
    THEN IF g.isPalmOpen THEN TRUE ELSE IF g.isFist THEN FALSE ELSE rotate
    ELSE IF g.isFist THEN FALSE ELSE IF g.isPalmOpen THEN TRUE ELSE rotate

\* C18: no classified state has isPalmOpen and isFist both true, so at most
\* one rotation rule matches it: applying the binding gives the same
\* autoRotate whichever rule is tried first.
C18_PalmExcludesFist ==
    passResult = "classified" =>
        /\ ~(newState.isPalmOpen /\ newState.isFist)
        /\ \A rotate \in BOOLEAN :
              /\ RotateAfter(newState, rotate, rotate) = RulesInOrder("palm", newState, rotate)
              /\ RotateAfter(newState, rotate, rotate) = RulesInOrder("fist", newState, rotate)

\* C18: a fist that does not pinch was classified, the hand nearest to a
\* palm among the fists.
C18_Witness ==
    /\ passResult = "classified"
    /\ newState.isFist
    /\ ~newState.isPinching
    /\ ~newState.isPalmOpen
\* A step that moves the batch scale s eases it towards target: the scale
\* becomes s + 0.1 * (target - s), to within a thousandth; from more than a
\* thousandth away it does not land on the target, it stays on its side of
\* the target, and its distance to the target does not grow.
EasesTowards(target) ==
    LET s    == currentScale
        next == currentScale'
    IN  /\ Abs(10 * (next - s) - (target - s)) <= 9
        /\ Abs(target - s) > 1 => next # target
        /\ s <= target => (s <= next /\ next <= target)
        /\ s >= target => (s >= next /\ next >= target)
        /\ Abs(target - next) <= Abs(target - s)

\* C17 as stated: in a render frame the batch scale eases towards
\* target = 1 + 2 * pvScale, pvScale being the control, and from the
\* initial scale 1 the scale is always in [1, 3].
C17_ScaleEasesToTarget ==
    /\ [](currentScale >= 1000 /\ currentScale <= 3000)
    /\ [][ frameRun' => EasesTowards(1000 + 2 * pvScale) ]_vars

\* C17, amended: in a render frame the batch scale eases towards
\* target = 1 + 2 * m, m being the scaleMultiplier prop SolarPanels was
\* last rendered with (a frame that comes before the renders that bring a
\* new pvScale down to SolarPanels still eases towards the old target); no
\* other step moves the scale, so its distance to the target does not grow
\* while m is constant; and from the initial scale 1 the scale is always
\* in [1, 3].
C17_ScaleEasesToRendered ==
    /\ [](currentScale >= 1000 /\ currentScale <= 3000)
    /\ [][ /\ frameRun' => EasesTowards(1000 + 2 * scaleMultiplier)
           /\ ~frameRun' => currentScale' = currentScale ]_vars

\* C17: SolarPanels was rendered with a pvScale of 1 and the scale has
\* risen to within 0.1 of the target 3; the user has moved the control to
\* 0 and a frame has run before that value reached SolarPanels.
C17_Witness ==
    /\ frameRun
    /\ pvScale = 0
    /\ scaleMultiplier = 1000
    /\ currentScale > 2900
    /\ currentScale < 3000

\* The projection as C19 writes it: phi = 90 - lat, theta = lon + 180,
\* (-(r sin(phi) cos(theta)), r cos(phi), r sin(phi) sin(theta)), the
\* angles in tenths of a degree.
Project(lat, lon, r) ==
    LET phi   == 900 - lat
        theta == lon + 1800
    IN  Vec(-(Scaled(Scaled(r * Sin(phi), One) * Cos(theta), One)),
            Scaled(r * Cos(phi), One),
            Scaled(Scaled(r * Sin(phi), One) * Sin(theta), One))

\* C19: a computed position is Project of its coordinate at its radius,
\* 50.05 for a station and 50.3 for the overlay; at lat = 0, lon = 0 it is
\* (r, 0, 0); and the station code and the overlay code compute the same
\* projection of every coordinate, each at its own radius.
C19_ProjectionFormula ==
    placement.site \in {"station", "overlay"} =>
        LET c == placement.coord
            r == IF placement.site = "station" THEN 5005 ELSE 5030
        IN  /\ placement.position = Project(c.lat, c.lon, r)
            /\ (c.lat = 0 /\ c.lon = 0) => placement.position = Vec(r, 0, 0)
            /\ StationPosition(c) = Project(c.lat, c.lon, 5005)
            /\ OverlayPosition(c) = Project(c.lat, c.lon, 5030)

\* C19: the position of a station at lat = 0, lon = 0 was computed.
C19_Witness ==
    /\ placement.site = "station"
    /\ placement.coord = [lat |-> 0, lon |-> 0]
    /\ placement.position = Vec(5005, 0, 0)

\* The cross product of two vectors with components in ten-thousandths.
Cross(a, b) ==
    Vec(Scaled(a.y * b.z - a.z * b.y, One),
        Scaled(a.z * b.x - a.x * b.z, One),
        Scaled(a.x * b.y - a.y * b.x, One))

\* The vector v turned by the unit quaternion q:
\* v + 2 w (u x v) + 2 u x (u x v), with u the vector part of q.
Rotate(q, v) ==
    LET u  == Vec(q.x, q.y, q.z)
        c  == Cross(u, v)
        t  == Vec(2 * c.x, 2 * c.y, 2 * c.z)
        ut == Cross(u, t)
    IN  Vec(v.x + Scaled(q.w * t.x, One) + ut.x,
            v.y + Scaled(q.w * t.y, One) + ut.y,
            v.z + Scaled(q.w * t.z, One) + ut.z)

\* C20: the quaternion computed for a position turns the up axis (0, 1, 0) into
\* the normalized position, the outward normal, to within 0.001 in each
\* component (the rounding of the fixed-point arithmetic), and the image
\* has length 1 to within 0.001; this includes both poles.
C20_UpTurnsToNormal ==
    placement.site \in {"station", "overlay"} =>
        LET normal == Normalize(placement.position)
            image  == Rotate(placement.quaternion, Up)
        IN  /\ Abs(image.x - normal.x) <= 10
            /\ Abs(image.y - normal.y) <= 10
            /\ Abs(image.z - normal.z) <= 10
            /\ Abs(Sqrt(image.x * image.x + image.y * image.y
                          + image.z * image.z) - One) <= 10

\* C20: the orientation was computed at the south pole, where the normal is opposite
\* to the up axis, and its quaternion turns the up axis upside down.
C20_Witness ==
    /\ placement.site = "station"
    /\ placement.coord.lat = -900
    /\ Normalize(placement.position) = Vec(0, -One, 0)
    /\ Rotate(placement.quaternion, Up) = Vec(0, -One, 0)
\* C21: after a frame is processed without an exception, the last emitted
\* state has the three flags of that frame's classification and a
\* pinchDistance at most 0.05 away from the classified one; after a
\* processed frame without a hand it is exactly the neutral state.
C21_EmittedTracksClassified ==
    passResult \in {"emit", "quiet"} =>
        /\ previousState.isPalmOpen = newState.isPalmOpen
        /\ previousState.isFist = newState.isFist
        /\ previousState.isPinching = newState.isPinching
        /\ Abs(previousState.pinchDistance - newState.pinchDistance) <= 50
        /\ result.kind = "empty" =>
              previousState = [ isPalmOpen    |-> FALSE,
                                isFist        |-> FALSE,
                                isPinching    |-> FALSE,
                                pinchDistance |-> 0,
                                handPosition  |-> [x |-> 500, y |-> 500] ]

\* C21: a pinch 0.03 away from the emitted one was processed and not
\* emitted: the consumer holds a state that is not the classified one.
C21_Witness ==
    /\ passResult = "quiet"
    /\ result.kind = "hand"
    /\ newState.isPinching
    /\ previousState.pinchDistance # newState.pinchDistance
    /\ gestureState = previousState
\* The step processed a hand that pinches, with the flags of the last
\* emitted state and a pinchDistance less than 0.05 away from it.
SteadyPinchFrame ==
    /\ passResult' \in {"emit", "quiet"}
    /\ result'.kind = "hand"
    /\ newState'.isPinching
    /\ newState'.isPalmOpen = previousState.isPalmOpen
    /\ newState'.isFist = previousState.isFist
    /\ newState'.isPinching = previousState.isPinching
    /\ Abs(newState'.pinchDistance - previousState.pinchDistance) < 50

\* A frame of a steady pinch is not emitted.
SteadyPinchQuiet ==
    SteadyPinchFrame =>
        /\ passResult' = "quiet"
        /\ previousState' = previousState
        /\ gestureState' = gestureState
        /\ pendingSets' = pendingSets

\* C22 (as stated): while the frames keep pinching with constant flags and
\* a pinchDistance within 0.05 of the last emitted one, none of them is
\* emitted; pvScale is written by the gesture effect at most once for each
\* emission, and each write raises it by 0.02.
C22_NoRunaway ==
    /\ [](owed >= 0)
    /\ [][ /\ SteadyPinchQuiet
           /\ effectRun'.ran =>
                 \/ pvScale' = pvScale
                 \/ /\ effectRun'.gesture.isPinching
                    /\ pvScale' = pvScale + 20 ]_vars

\* C22 (amended): the same, each write setting pvScale to min(1, v + 0.02)
\* for the value v of pvScale that AppContent rendered last.
C22_NoRunawayClamped ==
    /\ [](owed >= 0)
    /\ [][ /\ SteadyPinchQuiet
           /\ effectRun'.ran =>
                 \/ pvScale' = pvScale
                 \/ /\ effectRun'.gesture.isPinching
                    /\ pvScale' = Min(1000, effectRun'.scaleSeen + 20) ]_vars

\* C22: a pinch was emitted and pvScale rose once for it, and a further
\* frame of the same pinch, 0.03 away, has just been processed without an
\* emission.
C22_Witness ==
    /\ owed = 0
    /\ pvScale = InitialScale + ScaleStep
    /\ passResult = "quiet"
    /\ result.kind = "hand"
    /\ newState.isPinching
    /\ newState.pinchDistance # previousState.pinchDistance
    /\ pendingSets = 0
    /\ ~effectDue.due
\* The instance matrix of a station of each latitude, longitude and class:
\* the projected position at radius 50.05, the orientation of that
\* position, and the size of the class, 0.3, 0.2 or 0.1.
StationMatrix ==
    [ lat \in {396, 400, 403}, lon \in {1063, 1075, 1087},
      type \in {"Large", "Medium", "Small"} |->
        [ written    |-> TRUE,
          position   |-> Project(lat, lon, 5005),
          quaternion |-> SetFromUnitVectors(Up,
                           Normalize(Project(lat, lon, 5005))),
          scale      |-> CASE type = "Large"  -> 300
                           [] type = "Medium" -> 200
                           [] type = "Small"  -> 100 ] ]

\* The instance matrices the 50 stations are given.
StationMatrices ==
    [ i \in 1..50 |->
        StationMatrix[stations[i].lat, stations[i].lon, stations[i].type] ]

\* C23: the instance matrices are written once, by the layout effect, with
\* each station's position, orientation and size class 0.3 / 0.2 / 0.1;
\* after that they keep these values, and a render frame or a change of a
\* control leaves them as they are, a render frame changing nothing in the
\* scene but the batch scale.
C23_InstancesWrittenOnce ==
    /\ [](layoutRan => instanceMatrix = StationMatrices)
    /\ [][ /\ instanceMatrix' # instanceMatrix =>
                 (~layoutRan /\ layoutRan' /\ instanceMatrix' = StationMatrices)
           /\ (frameRun' \/ currentScale' # currentScale
                 \/ pvScale' # pvScale \/ autoRotate' # autoRotate
                 \/ (layoutRan /\ scaleMultiplier' # scaleMultiplier)) =>
                 /\ instanceMatrix' = instanceMatrix
                 /\ layoutRan' = layoutRan
                 /\ stations' = stations ]_vars

\* C23: the matrices were written, the user then moved the scale control
\* and render frames have moved the batch scale.
C23_Witness ==
    /\ layoutRan
    /\ \E i, j \in 1..50 :
          /\ stations[i].type = "Large" /\ instanceMatrix[i].scale = 300
          /\ stations[j].type = "Small" /\ instanceMatrix[j].scale = 100
    /\ pvScale = 1000
    /\ scaleMultiplier = 1000
    /\ currentScale > 2000
\* C24: in every reachable state at most one animation-frame callback of
\* predictWebcam is pending and at most one camera stream is live.
C24_OneLoopOneStream ==
    /\ Cardinality(pendingFrames) <= 1
    /\ liveStreams <= 1

\* C24: the camera was started by a manual retry after the detector failed
\* to initialize, and the loop runs: one callback pending, one stream live.
C24_Witness ==
    /\ mounted
    /\ landmarkerRef = "null"
    /\ cameraReady
    /\ Cardinality(pendingFrames) = 1
    /\ liveStreams = 1
    /\ lastVideoTime = -1
    /\ passResult = "idle"
====
